---- MODULE Spec2Model ----
(***************************************************************************)
(* Model of the SITA orchestrator's plan execution engine                  *)
(* (src/orchestrator/app.py, state.py, models.py, llm_planner.py).         *)
(*                                                                         *)
(* A plan object is shared by reference between the store (_PLANS), the    *)
(* request handlers and the runner passes, so one record per plan id is    *)
(* the object and `store` is the set of ids registered in _PLANS.          *)
(* A runner pass (_run_plan) is cut into steps at the points where another *)
(* thread can observe or change the plan object.                           *)
(***************************************************************************)
EXTENDS Integers, Sequences, FiniteSets, TLC

(* ---------------------------- bounds ----------------------------------- *)
MaxTasks == 3
MaxConcTasks == 1
MaxRetries == 1
MaxClock == 1
MaxFaults == 2
MaxConcFaults == 1
NumWorkers == 2

PlanIds == {"p1"}
UnknownId == "p?"
Workers == 1..NumWorkers
(* What an agent endpoint may answer: a JSON document, an empty 204, an     *)
(* error page.                                                              *)
Responses == {<<200, "json">>, <<204, "text">>, <<500, "text">>}

VARIABLES plans, store, clock, thr, calls, ev

(* The collector service (src/collector/app.py): its two module globals,    *)
(* its configuration and the answer to its last request.                    *)
VARIABLES EVENT_BUFFER, DEDUP_INDEX, SIMULATION_MODE, reply

(* The remediation agent (src/remediation): a request and the answer to    *)
(* it.                                                                      *)
VARIABLES remediation_request, remediation_result

(* The analyzer agent (src/agent_analyzer.py): the request being served.    *)
VARIABLES analysis

engine == <<plans, store, clock, thr, calls, ev>>
collector == <<EVENT_BUFFER, DEDUP_INDEX, SIMULATION_MODE, reply>>
remediation == <<remediation_request, remediation_result>>
analyzer == <<analysis>>
services == <<collector, remediation, analyzer>>

vars == <<engine, services>>

(* ---------------------------- data model ------------------------------- *)
PENDING == "pending"
RUNNING == "running"
AWAITING_APPROVAL == "awaiting_approval"
SUCCEEDED == "succeeded"
FAILED == "failed"

TerminalPlan == {SUCCEEDED, FAILED}
TerminalTask == {"succeeded", "failed", "skipped"}

NoPlan == [status |-> "absent"]
NoTask == 0
NoCode == 0
NoError == [kind |-> "none", code |-> 0]
HttpError(c) == [kind |-> "http", code |-> c]
ExcError == [kind |-> "exc", code |-> 0]

RetryPolicy(n) == [max_retries |-> n]

(* obj is the identity of the Task object: <<k, i>> is the i-th Task built  *)
(* by the k-th call of the planner.                                         *)
NoObj == <<0, 0>>

Task(i, agent, n, ra) ==
    [id |-> i, agent |-> agent, retry_policy |-> RetryPolicy(n),
     requires_approval |-> ra, approved |-> FALSE,
     status |-> "pending", attempts |-> 0, last_response_status |-> NoCode,
     result |-> "none", error |-> NoError, obj |-> NoObj]

TraceEntry(ts, msg, tid, st) ==
    [timestamp |-> ts, message |-> msg, task_id |-> tid, status |-> st]

(* Variant: the newest entry is put first. *)
add_tracePrepends(plan, now, msg, tid, st) ==
    [plan EXCEPT !.plan_trace = <<TraceEntry(now, msg, tid, st)>> \o @]

add_trace(plan, now, msg, tid, st) ==
    [plan EXCEPT !.plan_trace = Append(@, TraceEntry(now, msg, tid, st))]

OrchestratorPlan(p, tasks, now) ==
    [id |-> p, status |-> PENDING, tasks |-> tasks, plan_trace |-> <<>>,
     created_at |-> now, updated_at |-> now]

(* ---------------------------- planner ---------------------------------- *)
(* Variant: the gate is put on the first task. *)
generate_planGatesFirst ==
    << Task(1, "analyzer", 1, TRUE),
       Task(2, "triage", 1, FALSE),
       Task(3, "remediation", 1, FALSE) >>

(* The reference planner: analyze, triage, remediate; the last one gated.   *)
generate_plan ==
    << Task(1, "analyzer", 1, FALSE),
       Task(2, "triage", 1, FALSE),
       Task(3, "remediation", 1, TRUE) >>

AgentOf(i) == IF i = 1 THEN "analyzer" ELSE IF i = 2 THEN "triage" ELSE "remediation"

(* The planner is a collaborator: any ordered list of freshly built task    *)
(* descriptors with one retry policy per plan and any of the tasks gated,   *)
(* the reference planner's output among them.                               *)
PlansUpTo(len) ==
    UNION { { [i \in 1..n |-> Task(i, AgentOf(i), mr, ra[i])] :
                mr \in 0..MaxRetries, ra \in [1..n -> BOOLEAN] }
            : n \in 0..len }

PlannerOutputs == PlansUpTo(MaxTasks) \cup {generate_plan}

(* Every call of the planner constructs its Task objects anew.              *)
NewTasks(tasks, k) == [i \in 1..Len(tasks) |-> [tasks[i] EXCEPT !.obj = <<k, i>>]]

(* ---------------------------- store ------------------------------------ *)
(* Variant: an unknown id falls back to a stored plan. *)
get_planFallback(p) ==
    IF p \in store THEN plans[p]
    ELSE IF store # {} THEN plans[CHOOSE q \in store : TRUE]
    ELSE NoPlan

get_plan(p) == IF p \in store THEN plans[p] ELSE NoPlan

save_plan(plan, now) == [plan EXCEPT !.updated_at = now]

(* ---------------------------- services at rest ------------------------- *)
EmptyIndex == [d \in {} |-> 0]

(* reply is the answer to the collector's last request. entries, buffer and *)
(* index record the request and the globals as the request found them;     *)
(* flushed holds the events the request before it flushed, if it was a      *)
(* flush that emptied the buffer.                                           *)
NoReply ==
    [op |-> "none", code |-> 0, accepted_count |-> 0, deduped_count |-> 0,
     event_count |-> 0, events |-> <<>>, entries |-> <<>>,
     buffer |-> <<>>, index |-> EmptyIndex, flushed |-> <<>>]

CollectorInit ==
    /\ EVENT_BUFFER = <<>>
    /\ DEDUP_INDEX = EmptyIndex
    /\ reply = NoReply

NoRequest == [playbook |-> "none"]
NoResult == [code |-> 0]

RemediationInit ==
    /\ remediation_request = NoRequest
    /\ remediation_result = NoResult

(* attempts and warnings are the locals of _parse_llm_json_with_retries;    *)
(* events and outputs record the request and what the LLM answered so far.  *)
NoAnalysis ==
    [pc |-> "idle", events |-> 0, attempts |-> 0, warnings |-> <<>>,
     outputs |-> <<>>, prompts |-> <<>>, code |-> 0, parsing_attempts |-> 0,
     alerts |-> 0]

AnalyzerInit == analysis = NoAnalysis

(* ---------------------------- workers ---------------------------------- *)
IdleThr == [pc |-> "idle", op |-> "none", plan |-> UnknownId, i |-> 0,
            attempt |-> 0, max_attempts |-> 0, succeeded |-> FALSE, call |-> 0,
            now |-> 0]

NewPass(op, p) == [IdleThr EXCEPT !.pc = "begin", !.op = op, !.plan = p]

AllIdle == \A w \in Workers : thr[w].pc = "idle"
FreeWorkers == {w \in Workers : thr[w].pc = "idle"}
FreeWorker == CHOOSE w \in FreeWorkers : \A v \in FreeWorkers : w <= v

(* ev is the response the step just taken sent to a client, if it sent one. *)
(* tid is the task id a rejected Approve named (NoTask if it named none).    *)
NoEvent == [op |-> "none", plan |-> UnknownId, tid |-> NoTask, code |-> 0, snap |-> NoPlan]
Event(op, p, tid, code, snap) ==
    [op |-> op, plan |-> p, tid |-> tid, code |-> code, snap |-> snap]

(* The services start empty; the collector runs with its default          *)
(* configuration.                                                           *)
ServicesInit ==
    /\ CollectorInit
    /\ SIMULATION_MODE = TRUE
    /\ RemediationInit
    /\ AnalyzerInit

EngineInit ==
    /\ plans = [p \in PlanIds |-> NoPlan]
    /\ store = {}
    /\ clock = 0
    /\ thr = [w \in Workers |-> IdleThr]
    /\ calls = <<>>
    /\ ev = NoEvent

Init == EngineInit /\ ServicesInit

(* datetime.utcnow() advances between steps. Timestamps decide no branch    *)
(* of the engine, and Spec and SpecConc hold the clock still.                *)
Tick ==
    /\ clock < MaxClock
    /\ clock' = clock + 1
    /\ ev' = NoEvent
    /\ UNCHANGED <<services, plans, store, thr, calls>>

(* ---------------------------- handlers --------------------------------- *)
(* POST /orchestrate: build the plan, register it, dispatch a runner pass.  *)
orchestrate(p, tasks) ==
    /\ p \notin store
    /\ FreeWorkers # {}
    /\ LET built == NewTasks(tasks, Cardinality(store) + 1)
           plan == add_trace(OrchestratorPlan(p, built, clock), clock,
                             "Plan created.", NoTask, PENDING)
       IN  /\ plans' = [plans EXCEPT ![p] = plan]
           /\ store' = store \cup {p}
    /\ thr' = [thr EXCEPT ![FreeWorker] = NewPass("orchestrate", p)]
    /\ ev' = NoEvent
    /\ UNCHANGED <<services, clock, calls>>

(* GET /orchestrate/{plan_id}/status *)
get_status(p) ==
    /\ ev' = IF get_plan(p) = NoPlan
                THEN Event("get_status", p, NoTask, 404, NoPlan)
                ELSE Event("get_status", p, NoTask, 200, get_plan(p))
    /\ UNCHANGED <<services, plans, store, clock, thr, calls>>

(* Variant: a gated task can be approved before a pass has marked it. *)
ApproveTargetNotYetMarked(plan, tid) ==
    LET S == {i \in 1..Len(plan.tasks) :
                /\ plan.tasks[i].status \in {"pending", "awaiting_approval"}
                /\ plan.tasks[i].requires_approval /\ ~plan.tasks[i].approved
                /\ (tid = NoTask \/ plan.tasks[i].id = tid)}
    IN  IF S = {} THEN 0 ELSE CHOOSE i \in S : \A j \in S : i <= j

(* Variant: the explicit task id is not compared. *)
ApproveTargetIgnoresId(plan, tid) ==
    LET S == {i \in 1..Len(plan.tasks) : plan.tasks[i].status = "awaiting_approval"}
    IN  IF S = {} THEN 0 ELSE CHOOSE i \in S : \A j \in S : i <= j

(* First task awaiting approval (matching the explicit id, if one is given); *)
(* 0 when there is none.                                                     *)
ApproveTarget(plan, tid) ==
    LET S == {i \in 1..Len(plan.tasks) :
                /\ plan.tasks[i].status = "awaiting_approval"
                /\ (tid = NoTask \/ plan.tasks[i].id = tid)}
    IN  IF S = {} THEN 0 ELSE CHOOSE i \in S : \A j \in S : i <= j

(* Variant: the approved flag is not set. *)
ApproveTaskStatusOnly(task) == [task EXCEPT !.status = "pending"]

(* Variant: approving a task removes its gate. *)
ApproveTaskClearsGate(task) ==
    [task EXCEPT !.approved = TRUE, !.status = "pending", !.requires_approval = FALSE]

(* lines 180-181 *)
ApproveTask(task) == [task EXCEPT !.approved = TRUE, !.status = "pending"]

(* Variant: the request is traced before it is validated. *)
approveLogsFirst(p, tid) ==
    LET plan == get_plan(p) IN
    IF plan = NoPlan
    THEN /\ ev' = Event("approve", p, tid, 404, NoPlan)
         /\ UNCHANGED <<services, plans, store, clock, thr, calls>>
    ELSE LET logged == add_trace(plan, clock, "approval requested", tid, "pending")
             target == ApproveTarget(plan, tid) IN
         IF target = 0
         THEN /\ ev' = Event("approve", p, tid, 400, NoPlan)
              /\ plans' = [plans EXCEPT ![p] = logged]
              /\ UNCHANGED <<services, store, clock, thr, calls>>
         ELSE /\ FreeWorkers # {}
              /\ LET p1 == [logged EXCEPT !.tasks[target] = ApproveTask(@)]
                     p2 == add_trace(p1, clock, "approved by operator",
                                     p1.tasks[target].id, p1.tasks[target].status)
                 IN  plans' = [plans EXCEPT ![p] = save_plan(p2, clock)]
              /\ thr' = [thr EXCEPT ![FreeWorker] = NewPass("approve", p)]
              /\ ev' = NoEvent
              /\ UNCHANGED <<services, store, clock, calls>>

(* POST /orchestrate/{plan_id}/approve *)
approve(p, tid) ==
    LET plan == get_plan(p) IN
    IF plan = NoPlan
    THEN /\ ev' = Event("approve", p, tid, 404, NoPlan)
         /\ UNCHANGED <<services, plans, store, clock, thr, calls>>
    ELSE LET target == ApproveTarget(plan, tid) IN
         IF target = 0
         THEN /\ ev' = Event("approve", p, tid, 400, NoPlan)
              /\ UNCHANGED <<services, plans, store, clock, thr, calls>>
         ELSE /\ FreeWorkers # {}
              /\ LET p1 == [plan EXCEPT !.tasks[target] = ApproveTask(@)]
                     p2 == add_trace(p1, clock, "approved by operator",
                                     p1.tasks[target].id, p1.tasks[target].status)
                 IN  plans' = [plans EXCEPT ![p] = save_plan(p2, clock)]
              /\ thr' = [thr EXCEPT ![FreeWorker] = NewPass("approve", p)]
              /\ ev' = NoEvent
              /\ UNCHANGED <<services, store, clock, calls>>

(* The handler's continuation after the pass: return the latest plan.       *)
Return(w) ==
    /\ thr[w].pc = "ret"
    /\ ev' = Event(thr[w].op, thr[w].plan, NoTask, 200, plans[thr[w].plan])
    /\ thr' = [thr EXCEPT ![w] = IdleThr]
    /\ UNCHANGED <<services, plans, store, clock, calls>>

(* ---------------------------- _run_plan -------------------------------- *)
Goto(w, pc) == [thr EXCEPT ![w].pc = pc]

(* Variant: 300 is taken for a success. *)
IsSuccessUpTo300(code) == 200 <= code /\ code <= 300

IsSuccess(code) == 200 <= code /\ code < 300

(* Variant: succeeded tasks are not passed over. *)
IsTerminalTaskOnlyFailed(task) == task.status \in {"failed", "skipped"}

(* line 38 *)
IsTerminalTask(task) == task.status \in TerminalTask

(* Variant: the gate does not look at the approved flag. *)
NeedsApprovalIgnoresApproved(task) == task.requires_approval

(* Variant: the negation of approved dropped. *)
NeedsApprovalInverted(task) == task.requires_approval /\ task.approved

NeedsApproval(task) == task.requires_approval /\ ~task.approved

(* Variant: the first attempt not counted. *)
MaxAttemptsNoFirst(task) == task.retry_policy.max_retries

(* Variant: one attempt too many. *)
MaxAttemptsExtra(task) == task.retry_policy.max_retries + 2

(* line 59 *)
MaxAttempts(task) == task.retry_policy.max_retries + 1

(* lines 25-31: fetch the plan; nothing to do if it is unknown or finished. *)
RunBegin(w) ==
    /\ thr[w].pc = "begin"
    /\ LET plan == get_plan(thr[w].plan) IN
       thr' = IF plan = NoPlan \/ plan.status \in TerminalPlan
                THEN Goto(w, "ret")
                ELSE Goto(w, "set_running")
    /\ ev' = NoEvent
    /\ UNCHANGED <<services, plans, store, clock, calls>>

(* Variant: the pass starts without a trace entry. *)
RunSetRunningSilent(w) ==
    /\ thr[w].pc = "set_running"
    /\ plans' = [plans EXCEPT ![thr[w].plan].status = RUNNING]
    /\ thr' = [thr EXCEPT ![w].pc = "loop", ![w].i = 1]
    /\ ev' = NoEvent
    /\ UNCHANGED <<services, store, clock, calls>>

(* lines 33-34 *)
RunSetRunning(w) ==
    /\ thr[w].pc = "set_running"
    /\ LET p == thr[w].plan
           p1 == [plans[p] EXCEPT !.status = RUNNING]
       IN  plans' = [plans EXCEPT ![p] =
                        add_trace(p1, clock, "Plan execution started", NoTask, p1.status)]
    /\ thr' = [thr EXCEPT ![w].pc = "loop", ![w].i = 1]
    /\ ev' = NoEvent
    /\ UNCHANGED <<services, store, clock, calls>>

(* lines 36-43 and 52: the head of the task loop and the approval test.      *)
RunLoop(w) ==
    /\ thr[w].pc = "loop"
    /\ LET plan == plans[thr[w].plan]
           i == thr[w].i
       IN  thr' =
             IF i > Len(plan.tasks) THEN Goto(w, "finish")
             ELSE IF IsTerminalTask(plan.tasks[i]) THEN [thr EXCEPT ![w].i = i + 1]
             ELSE IF NeedsApproval(plan.tasks[i])
                  THEN IF plan.tasks[i].status # "awaiting_approval"
                       THEN Goto(w, "gate_mark")
                       ELSE Goto(w, "ret")
             ELSE Goto(w, "exec")
    /\ ev' = NoEvent
    /\ UNCHANGED <<services, plans, store, clock, calls>>

(* line 44 *)
RunGateMark(w) ==
    /\ thr[w].pc = "gate_mark"
    /\ plans' = [plans EXCEPT ![thr[w].plan].tasks[thr[w].i].status = "awaiting_approval"]
    /\ thr' = Goto(w, "gate_plan")
    /\ ev' = NoEvent
    /\ UNCHANGED <<services, store, clock, calls>>

(* Variant: the gate leaves the plan status as it is. *)
RunGatePlanKeepsStatus(w) ==
    /\ thr[w].pc = "gate_plan"
    /\ LET p == thr[w].plan
           i == thr[w].i
       IN  plans' = [plans EXCEPT ![p] =
                        add_trace(plans[p], clock, "requires approval before execution",
                                  plans[p].tasks[i].id, plans[p].tasks[i].status)]
    /\ thr' = Goto(w, "gate_save")
    /\ ev' = NoEvent
    /\ UNCHANGED <<services, store, clock, calls>>

(* lines 45-50 *)
RunGatePlan(w) ==
    /\ thr[w].pc = "gate_plan"
    /\ LET p == thr[w].plan
           i == thr[w].i
           p1 == [plans[p] EXCEPT !.status = AWAITING_APPROVAL]
       IN  plans' = [plans EXCEPT ![p] =
                        add_trace(p1, clock, "requires approval before execution",
                                  p1.tasks[i].id, p1.tasks[i].status)]
    /\ thr' = Goto(w, "gate_save")
    /\ ev' = NoEvent
    /\ UNCHANGED <<services, store, clock, calls>>

(* Variant: the gate continues with the next task instead of returning. *)
RunGateSaveContinue(w) ==
    /\ thr[w].pc = "gate_save"
    /\ plans' = [plans EXCEPT ![thr[w].plan] = save_plan(@, clock)]
    /\ thr' = [thr EXCEPT ![w].pc = "loop", ![w].i = @ + 1]
    /\ ev' = NoEvent
    /\ UNCHANGED <<services, store, clock, calls>>

(* lines 51-52 *)
RunGateSave(w) ==
    /\ thr[w].pc = "gate_save"
    /\ plans' = [plans EXCEPT ![thr[w].plan] = save_plan(@, clock)]
    /\ thr' = Goto(w, "ret")
    /\ ev' = NoEvent
    /\ UNCHANGED <<services, store, clock, calls>>

(* Variant: the task is not marked running before its first attempt. *)
RunExecKeepsStatus(w) ==
    /\ thr[w].pc = "exec"
    /\ LET p == thr[w].plan
           i == thr[w].i
       IN  /\ plans' = [plans EXCEPT ![p] =
                           add_trace(plans[p], clock, "Executing task",
                                     plans[p].tasks[i].id, plans[p].tasks[i].status)]
           /\ thr' = [thr EXCEPT ![w].pc = "attempt",
                                 ![w].succeeded = FALSE,
                                 ![w].attempt = 0,
                                 ![w].max_attempts = MaxAttempts(plans[p].tasks[i])]
    /\ ev' = NoEvent
    /\ UNCHANGED <<services, store, clock, calls>>

(* lines 55-59 *)
RunExec(w) ==
    /\ thr[w].pc = "exec"
    /\ LET p == thr[w].plan
           i == thr[w].i
           p1 == [plans[p] EXCEPT !.tasks[i].status = "running"]
       IN  /\ plans' = [plans EXCEPT ![p] =
                           add_trace(p1, clock, "Executing task",
                                     p1.tasks[i].id, p1.tasks[i].status)]
           /\ thr' = [thr EXCEPT ![w].pc = "attempt",
                                 ![w].succeeded = FALSE,
                                 ![w].attempt = 0,
                                 ![w].max_attempts = MaxAttempts(plans[p].tasks[i])]
    /\ ev' = NoEvent
    /\ UNCHANGED <<services, store, clock, calls>>

(* lines 61-69: the next iteration of the retry loop sends the request.      *)
RunAttempt(w) ==
    /\ thr[w].pc = "attempt"
    /\ thr[w].attempt < thr[w].max_attempts
    /\ LET p == thr[w].plan
           i == thr[w].i
       IN  /\ plans' = [plans EXCEPT ![p].tasks[i].attempts = @ + 1]
           /\ calls' = Append(calls, [plan |-> p, task |-> plans[p].tasks[i].id,
                                      code |-> NoCode, body |-> "none",
                                      done |-> FALSE])
    /\ thr' = [thr EXCEPT ![w].pc = "wait",
                          ![w].attempt = @ + 1,
                          ![w].call = Len(calls) + 1]
    /\ ev' = NoEvent
    /\ UNCHANGED <<services, store, clock>>

(* The environment: a remote call that fails, or answers with a body that   *)
(* is not JSON, is a fault; a behaviour has at most MaxFaults of them.       *)
IsFault(c) == c.done /\ ~(IsSuccess(c.code) /\ c.body = "json")
Faults == Cardinality({k \in DOMAIN calls : IsFault(calls[k])})
MayFault(lim) == Faults < lim

(* Variant: a success does not leave the retry loop. *)
RunResponseNoBreak(w, code, body, lim) ==
    /\ thr[w].pc = "wait"
    /\ (IsSuccess(code) /\ body = "json") \/ MayFault(lim)
    /\ LET p == thr[w].plan
           i == thr[w].i
           p1 == [plans[p] EXCEPT !.tasks[i].last_response_status = code]
       IN  IF IsSuccess(code)
           THEN /\ LET p2 == [p1 EXCEPT !.tasks[i].result =
                                           IF body = "json" THEN "json" ELSE "raw",
                                       !.tasks[i].status = "succeeded"]
                   IN  plans' = [plans EXCEPT ![p] =
                                    add_trace(p2, clock, "succeeded",
                                              p2.tasks[i].id, p2.tasks[i].status)]
                /\ thr' = IF thr[w].attempt < thr[w].max_attempts
                            THEN [thr EXCEPT ![w].pc = "attempt", ![w].succeeded = TRUE]
                            ELSE [thr EXCEPT ![w].pc = "loop", ![w].succeeded = TRUE,
                                             ![w].i = i + 1]
           ELSE /\ LET p2 == [p1 EXCEPT !.tasks[i].error = HttpError(code)]
                   IN  plans' = [plans EXCEPT ![p] =
                                    add_trace(p2, clock, "HTTP error",
                                              p2.tasks[i].id, "error")]
                /\ thr' = Goto(w, "attempt")
    /\ calls' = [calls EXCEPT ![thr[w].call].code = code,
                              ![thr[w].call].body = body,
                              ![thr[w].call].done = TRUE]
    /\ ev' = NoEvent
    /\ UNCHANGED <<services, store, clock>>

(* lines 70-91: the request returned a response.                             *)
RunResponse(w, code, body, lim) ==
    /\ thr[w].pc = "wait"
    /\ (IsSuccess(code) /\ body = "json") \/ MayFault(lim)
    /\ LET p == thr[w].plan
           i == thr[w].i
           p1 == [plans[p] EXCEPT !.tasks[i].last_response_status = code]
       IN  IF IsSuccess(code)
           THEN /\ LET p2 == [p1 EXCEPT !.tasks[i].result =
                                           IF body = "json" THEN "json" ELSE "raw",
                                       !.tasks[i].status = "succeeded"]
                   IN  plans' = [plans EXCEPT ![p] =
                                    add_trace(p2, clock, "succeeded",
                                              p2.tasks[i].id, p2.tasks[i].status)]
                /\ thr' = [thr EXCEPT ![w].pc = "loop",
                                      ![w].succeeded = TRUE,
                                      ![w].i = i + 1]
           ELSE /\ LET p2 == [p1 EXCEPT !.tasks[i].error = HttpError(code)]
                   IN  plans' = [plans EXCEPT ![p] =
                                    add_trace(p2, clock, "HTTP error",
                                              p2.tasks[i].id, "error")]
                /\ thr' = Goto(w, "attempt")
    /\ calls' = [calls EXCEPT ![thr[w].call].code = code,
                              ![thr[w].call].body = body,
                              ![thr[w].call].done = TRUE]
    /\ ev' = NoEvent
    /\ UNCHANGED <<services, store, clock>>

(* lines 93-99: the request raised requests.RequestException.                *)
RunException(w, lim) ==
    /\ thr[w].pc = "wait"
    /\ MayFault(lim)
    /\ LET p == thr[w].plan
           i == thr[w].i
           p1 == [plans[p] EXCEPT !.tasks[i].error = ExcError]
       IN  plans' = [plans EXCEPT ![p] =
                        add_trace(p1, clock, "request exception", p1.tasks[i].id, "error")]
    /\ thr' = Goto(w, "attempt")
    /\ calls' = [calls EXCEPT ![thr[w].call].done = TRUE]
    /\ ev' = NoEvent
    /\ UNCHANGED <<services, store, clock>>

(* Variant: a failure does not end the pass. *)
RunFailNoReturn(w) ==
    /\ thr[w].pc = "attempt"
    /\ ~(thr[w].attempt < thr[w].max_attempts)
    /\ ~thr[w].succeeded
    /\ LET p == thr[w].plan
           i == thr[w].i
           p1 == [plans[p] EXCEPT !.tasks[i].status = "failed", !.status = FAILED]
           p2 == add_trace(p1, clock, "failed after attempts",
                           p1.tasks[i].id, p1.tasks[i].status)
       IN  plans' = [plans EXCEPT ![p] = save_plan(p2, clock)]
    /\ thr' = [thr EXCEPT ![w].pc = "loop", ![w].i = @ + 1]
    /\ ev' = NoEvent
    /\ UNCHANGED <<services, store, clock, calls>>

(* Variant: a failure resets the tasks that had succeeded. *)
RunFailRollsBack(w) ==
    /\ thr[w].pc = "attempt"
    /\ ~(thr[w].attempt < thr[w].max_attempts)
    /\ ~thr[w].succeeded
    /\ LET p == thr[w].plan
           i == thr[w].i
           undone == [j \in 1..Len(plans[p].tasks) |->
                        IF plans[p].tasks[j].status = "succeeded"
                        THEN [plans[p].tasks[j] EXCEPT !.status = "pending",
                                                       !.result = "none",
                                                       !.attempts = 0,
                                                       !.last_response_status = NoCode]
                        ELSE plans[p].tasks[j]]
           p1 == [plans[p] EXCEPT !.tasks = [undone EXCEPT ![i].status = "failed"],
                                  !.status = FAILED]
           p2 == add_trace(p1, clock, "failed after attempts",
                           p1.tasks[i].id, p1.tasks[i].status)
       IN  plans' = [plans EXCEPT ![p] = save_plan(p2, clock)]
    /\ thr' = Goto(w, "ret")
    /\ ev' = NoEvent
    /\ UNCHANGED <<services, store, clock, calls>>

(* Variant: the failure is recorded on the plan alone. *)
RunFailPlanOnly(w) ==
    /\ thr[w].pc = "attempt"
    /\ ~(thr[w].attempt < thr[w].max_attempts)
    /\ ~thr[w].succeeded
    /\ LET p == thr[w].plan
           i == thr[w].i
           p1 == [plans[p] EXCEPT !.status = FAILED]
           p2 == add_trace(p1, clock, "failed after attempts",
                           p1.tasks[i].id, p1.tasks[i].status)
       IN  plans' = [plans EXCEPT ![p] = save_plan(p2, clock)]
    /\ thr' = Goto(w, "ret")
    /\ ev' = NoEvent
    /\ UNCHANGED <<services, store, clock, calls>>

(* lines 104-113: the retry loop ended without a success.                    *)
RunFail(w) ==
    /\ thr[w].pc = "attempt"
    /\ ~(thr[w].attempt < thr[w].max_attempts)
    /\ ~thr[w].succeeded
    /\ LET p == thr[w].plan
           i == thr[w].i
           p1 == [plans[p] EXCEPT !.tasks[i].status = "failed", !.status = FAILED]
           p2 == add_trace(p1, clock, "failed after attempts",
                           p1.tasks[i].id, p1.tasks[i].status)
       IN  plans' = [plans EXCEPT ![p] = save_plan(p2, clock)]
    /\ thr' = Goto(w, "ret")
    /\ ev' = NoEvent
    /\ UNCHANGED <<services, store, clock, calls>>

(* Variant: a plan without tasks has not succeeded. *)
AllSucceededSome(plan) ==
    /\ Len(plan.tasks) > 0
    /\ \A i \in 1..Len(plan.tasks) : plan.tasks[i].status = "succeeded"

AllSucceeded(plan) == \A i \in 1..Len(plan.tasks) : plan.tasks[i].status = "succeeded"

(* Variant: the store update refreshes updated_at of every stored plan. *)
RunFinishTouchesAll(w) ==
    /\ thr[w].pc = "finish"
    /\ LET p == thr[w].plan
           p1 == IF AllSucceeded(plans[p])
                   THEN add_trace([plans[p] EXCEPT !.status = SUCCEEDED], clock,
                                  "Plan completed successfully.", NoTask, SUCCEEDED)
                   ELSE plans[p]
       IN  plans' = [q \in DOMAIN plans |->
                        IF q = p THEN save_plan(p1, clock)
                        ELSE IF q \in store THEN save_plan(plans[q], clock)
                        ELSE plans[q]]
    /\ thr' = Goto(w, "ret")
    /\ ev' = NoEvent
    /\ UNCHANGED <<services, store, clock, calls>>

(* Variant: the final save leaves the plan status as it was. *)
RunFinishLeavesStatus(w) ==
    /\ thr[w].pc = "finish"
    /\ plans' = [plans EXCEPT ![thr[w].plan] = save_plan(plans[thr[w].plan], clock)]
    /\ thr' = Goto(w, "ret")
    /\ ev' = NoEvent
    /\ UNCHANGED <<services, store, clock, calls>>

(* lines 115-120 *)
RunFinish(w) ==
    /\ thr[w].pc = "finish"
    /\ LET p == thr[w].plan
           p1 == IF AllSucceeded(plans[p])
                   THEN add_trace([plans[p] EXCEPT !.status = SUCCEEDED], clock,
                                  "Plan completed successfully.", NoTask, SUCCEEDED)
                   ELSE plans[p]
       IN  plans' = [plans EXCEPT ![p] = save_plan(p1, clock)]
    /\ thr' = Goto(w, "ret")
    /\ ev' = NoEvent
    /\ UNCHANGED <<services, store, clock, calls>>

(* ---------------------------- specifications --------------------------- *)
RunStep(w, lim) ==
    \/ RunBegin(w)
    \/ RunSetRunning(w)
    \/ RunLoop(w)
    \/ RunGateMark(w)
    \/ RunGatePlan(w)
    \/ RunGateSave(w)
    \/ RunExec(w)
    \/ RunAttempt(w)
    \/ \E r \in Responses : RunResponse(w, r[1], r[2], lim)
    \/ RunException(w, lim)
    \/ RunFail(w)
    \/ RunFinish(w)
    \/ Return(w)

Request ==
    \/ \E p \in PlanIds, tasks \in PlannerOutputs : orchestrate(p, tasks)
    \/ \E p \in PlanIds \cup {UnknownId} : get_status(p)
    \/ \E p \in PlanIds \cup {UnknownId}, tid \in 0..MaxTasks : approve(p, tid)

(* One request at a time: a client that waits for each response.            *)
Next ==
    \/ AllIdle /\ Request
    \/ \E w \in Workers : RunStep(w, MaxFaults)

Spec == Init /\ [][Next]_vars

(* Variant: a request is taken only when no pass is in flight. *)
RequestConcOneAtATime ==
    /\ AllIdle
    /\ \/ \E p \in PlanIds, tasks \in PlansUpTo(MaxConcTasks) : orchestrate(p, tasks)
       \/ \E p \in PlanIds : get_status(p)
       \/ \E p \in PlanIds, tid \in 0..MaxConcTasks : approve(p, tid)

RequestConc ==
    \/ \E p \in PlanIds, tasks \in PlansUpTo(MaxConcTasks) : orchestrate(p, tasks)
    \/ \E p \in PlanIds : get_status(p)
    \/ \E p \in PlanIds, tid \in 0..MaxConcTasks : approve(p, tid)

(* Requests arrive while passes of earlier requests are still in flight.    *)
NextConc ==
    \/ RequestConc
    \/ \E w \in Workers : RunStep(w, MaxConcFaults)

SpecConc == Init /\ [][NextConc]_vars

(* ---------------------------- properties ------------------------------- *)
Tasks(p) == plans[p].tasks
TaskIdx(p) == 1..Len(plans[p].tasks)
CallsFor(p, tid) == {k \in DOMAIN calls : calls[k].plan = p /\ calls[k].task = tid}
TraceHas(plan, msg, tid) ==
    \E k \in DOMAIN plan.plan_trace :
        plan.plan_trace[k].message = msg /\ plan.plan_trace[k].task_id = tid
NotStarted(p, i) ==
    /\ Tasks(p)[i].status = "pending"
    /\ Tasks(p)[i].attempts = 0
    /\ CallsFor(p, Tasks(p)[i].id) = {}
    /\ ~TraceHas(plans[p], "Executing task", Tasks(p)[i].id)
Is2xx(c) == c >= 200 /\ c <= 299

(* C1. Approval gate: a task that requires approval and has not been        *)
(* approved has never run (it is pending or awaiting approval, has made no  *)
(* attempt and no remote call, and no "Executing" trace entry names it),    *)
(* and every task after it in the list is still pending with no attempt;    *)
(* the approved flag of a task is only ever set by Approve.                 *)
C1_ApprovalGate ==
    \A p \in store : \A i \in TaskIdx(p) :
        LET t == Tasks(p)[i] IN
        /\ (t.requires_approval /\ ~t.approved) =>
              /\ t.status \in {"pending", "awaiting_approval"}
              /\ t.attempts = 0
              /\ CallsFor(p, t.id) = {}
              /\ ~TraceHas(plans[p], "Executing task", t.id)
              /\ \A j \in TaskIdx(p) : j > i => NotStarted(p, j)
        /\ t.approved => TraceHas(plans[p], "approved by operator", t.id)

C1_Witness ==
    \E p \in store :
        /\ Len(Tasks(p)) = 3
        /\ Tasks(p)[1].status = "succeeded"
        /\ Tasks(p)[2].requires_approval /\ ~Tasks(p)[2].approved
        /\ Tasks(p)[2].status = "awaiting_approval"
        /\ plans[p].status = AWAITING_APPROVAL
        /\ AllIdle

Started(t) == t.status \in {"running", "succeeded", "failed"} \/ t.attempts > 0
InFlight(p) == {w \in Workers : thr[w].plan = p /\ thr[w].pc = "wait"}

(* C2. Strict sequential execution: a task has been set running or had a    *)
(* remote call attempted only if every task before it in the list is in a   *)
(* terminal state; at most one task of a plan is running and at most one    *)
(* remote call of a plan is in flight.                                      *)
C2_Sequential ==
    \A p \in store :
        /\ \A i, j \in TaskIdx(p) :
              (i < j /\ (Started(Tasks(p)[j]) \/ CallsFor(p, Tasks(p)[j].id) # {}))
                  => Tasks(p)[i].status \in TerminalTask
        /\ Cardinality({i \in TaskIdx(p) : Tasks(p)[i].status = "running"}) <= 1
        /\ Cardinality(InFlight(p)) <= 1
        /\ Cardinality({k \in DOMAIN calls : calls[k].plan = p /\ ~calls[k].done}) <= 1

C2_Witness ==
    \E p \in store :
        /\ Len(Tasks(p)) >= 2
        /\ Tasks(p)[1].status = "succeeded"
        /\ Tasks(p)[2].status = "running"
        /\ InFlight(p) # {}

AllCalls2xx(p) ==
    \A k \in DOMAIN calls : calls[k].plan = p => (calls[k].done /\ Is2xx(calls[k].code))

OnlyThirdGated(tasks) ==
    /\ Len(tasks) = 3
    /\ ~tasks[1].requires_approval
    /\ ~tasks[2].requires_approval
    /\ tasks[3].requires_approval

(* C3. Sequential gating, Start half: when Start returns for a plan         *)
(* [T1, T2, T3] in which only T3 requires approval and every remote call    *)
(* got a 2xx response, the returned plan is awaiting_approval, T1 and T2    *)
(* are succeeded and T3 is awaiting_approval with attempts = 0.             *)
C3_StartGating ==
    (/\ ev.op = "orchestrate"
     /\ ev.code = 200
     /\ OnlyThirdGated(ev.snap.tasks)
     /\ AllCalls2xx(ev.plan))
    => /\ ev.snap.status = AWAITING_APPROVAL
       /\ ev.snap.tasks[1].status = "succeeded"
       /\ ev.snap.tasks[2].status = "succeeded"
       /\ ev.snap.tasks[3].status = "awaiting_approval"
       /\ ev.snap.tasks[3].attempts = 0

C3_Witness ==
    /\ ev.op = "orchestrate"
    /\ ev.code = 200
    /\ OnlyThirdGated(ev.snap.tasks)
    /\ AllCalls2xx(ev.plan)
    /\ Len(calls) = 2

GatedIdx(tasks) == {i \in 1..Len(tasks) : tasks[i].requires_approval}
OnlyGate(tasks) == CHOOSE g \in GatedIdx(tasks) : TRUE
CallsFrom(p, g) == {k \in DOMAIN calls : calls[k].plan = p /\ calls[k].task >= g}

(* C4. Sequential gating, Approve half: when Approve returns for a plan     *)
(* with exactly one approval-gated task, and every remote call made for     *)
(* that task and the tasks after it got a 2xx response, the returned plan   *)
(* is succeeded, every task is succeeded and the trace is not empty.        *)
C4_ApproveGating ==
    (/\ ev.op = "approve"
     /\ ev.code = 200
     /\ Cardinality(GatedIdx(ev.snap.tasks)) = 1
     /\ \A k \in CallsFrom(ev.plan, OnlyGate(ev.snap.tasks)) :
            calls[k].done /\ Is2xx(calls[k].code))
    => /\ ev.snap.status = SUCCEEDED
       /\ \A i \in 1..Len(ev.snap.tasks) : ev.snap.tasks[i].status = "succeeded"
       /\ Len(ev.snap.plan_trace) > 0

C4_Witness ==
    /\ ev.op = "approve"
    /\ ev.code = 200
    /\ OnlyThirdGated(ev.snap.tasks)
    /\ ev.snap.tasks[3].approved
    /\ \A k \in CallsFrom(ev.plan, 3) : calls[k].done /\ Is2xx(calls[k].code)
    /\ ev.snap.status = SUCCEEDED

FailedCalls(p, tid) ==
    {k \in CallsFor(p, tid) : calls[k].done /\ ~Is2xx(calls[k].code)}

(* C5. Retry exhaustion: a task whose remote call failed on each of its     *)
(* max_retries + 1 attempts is failed (the pass's next step marks it so),   *)
(* and a failed task has attempts = max_retries + 1, all of them failed     *)
(* calls, its plan is failed, the pass has stopped and every task after it  *)
(* is still pending with attempts = 0.                                      *)
C5_RetryExhaustion ==
    \A p \in store : \A i \in TaskIdx(p) :
        LET t == Tasks(p)[i]
            n == t.retry_policy.max_retries
        IN  /\ t.status = "failed" =>
                  /\ t.attempts = n + 1
                  /\ Cardinality(FailedCalls(p, t.id)) = n + 1
                  /\ CallsFor(p, t.id) = FailedCalls(p, t.id)
                  /\ plans[p].status = FAILED
                  /\ \A j \in TaskIdx(p) : j > i => NotStarted(p, j)
                  /\ \A w \in Workers : thr[w].plan = p => thr[w].pc \in {"begin", "ret"}
            /\ Cardinality(FailedCalls(p, t.id)) = n + 1 =>
                  \/ t.status = "failed"
                  \/ \E w \in Workers :
                        /\ thr[w].plan = p /\ thr[w].i = i /\ thr[w].pc = "attempt"
                        /\ thr[w].attempt = n + 1 /\ thr[w].max_attempts = n + 1
                        /\ ~thr[w].succeeded

C5_Witness ==
    \E p \in store :
        /\ Len(Tasks(p)) >= 2
        /\ Tasks(p)[1].status = "failed"
        /\ Tasks(p)[1].retry_policy.max_retries = 1
        /\ Tasks(p)[1].attempts = 2
        /\ Tasks(p)[2].status = "pending"
        /\ plans[p].status = FAILED

(* C6. Retry success: a remote call that gets a 2xx response makes its task *)
(* succeeded, and a succeeded task with k failed calls has attempts = k + 1 *)
(* with k <= max_retries, its one successful call being the last call made  *)
(* for it; a plan is failed only if one of its tasks is failed.             *)
C6_RetrySuccess ==
    \A p \in store :
        /\ \A i \in TaskIdx(p) :
              LET t == Tasks(p)[i]
                  C == CallsFor(p, t.id)
                  F == FailedCalls(p, t.id)
              IN  /\ (\E k \in C : calls[k].done /\ Is2xx(calls[k].code))
                        => t.status = "succeeded"
                  /\ t.status = "succeeded" =>
                        /\ t.attempts = Cardinality(F) + 1
                        /\ Cardinality(C) = t.attempts
                        /\ Cardinality(F) <= t.retry_policy.max_retries
                        /\ \A k \in C \ F :
                              /\ calls[k].done
                              /\ Is2xx(calls[k].code)
                              /\ \A k2 \in C : k2 <= k
                        /\ Is2xx(t.last_response_status)
        /\ plans[p].status = FAILED =>
              \E i \in TaskIdx(p) : Tasks(p)[i].status = "failed"

C6_Witness ==
    \E p \in store : \E i \in TaskIdx(p) :
        /\ Tasks(p)[i].status = "succeeded"
        /\ Tasks(p)[i].retry_policy.max_retries = 1
        /\ Tasks(p)[i].attempts = 2
        /\ Cardinality(FailedCalls(p, Tasks(p)[i].id)) = 1
        /\ plans[p].status # FAILED

(* C7. Attempt budget: under every interleaving of requests and passes, no  *)
(* task has more attempts, or more remote calls, than max_retries + 1.      *)
C7_AttemptBudget ==
    \A p \in store : \A i \in TaskIdx(p) :
        /\ Tasks(p)[i].attempts <= Tasks(p)[i].retry_policy.max_retries + 1
        /\ Cardinality(CallsFor(p, Tasks(p)[i].id))
              <= Tasks(p)[i].retry_policy.max_retries + 1

C7_Witness ==
    \E p \in store : \E i \in TaskIdx(p) :
        /\ Tasks(p)[i].retry_policy.max_retries = 1
        /\ Tasks(p)[i].attempts = 2
        /\ Tasks(p)[i].requires_approval
        /\ Tasks(p)[i].status = "succeeded"

ApproveDispatched ==
    \E w \in Workers :
        thr[w].pc = "idle" /\ thr'[w].pc = "begin" /\ thr'[w].op = "approve"

HasAwaiting(plan, tid) ==
    \E i \in 1..Len(plan.tasks) :
        /\ plan.tasks[i].status = "awaiting_approval"
        /\ (tid = NoTask \/ plan.tasks[i].id = tid)

(* C8. Failed Approve leaves the plan untouched: a step in which Approve    *)
(* answers 400 is taken on a plan with no task awaiting approval (none      *)
(* with the id the request named) and changes neither the plans, the store, *)
(* the clock, the calls made nor the passes in flight; Approve dispatches   *)
(* a pass only for a plan that had a task awaiting approval; and an         *)
(* approved task is never again awaiting approval, so a second Approve for  *)
(* it answers 400.                                                          *)
C8_FailedApprove ==
    /\ [][ /\ (ev'.op = "approve" /\ ev'.code = 400) =>
                 /\ UNCHANGED <<plans, store, clock, thr, calls>>
                 /\ ev'.plan \in store
                 /\ ~HasAwaiting(plans[ev'.plan], ev'.tid)
           /\ ApproveDispatched =>
                 \E w \in Workers : thr'[w].pc = "begin" /\ thr'[w].plan \in store
                                       /\ HasAwaiting(plans[thr'[w].plan], NoTask)
         ]_vars
    /\ [](\A p \in store : \A i \in TaskIdx(p) :
              Tasks(p)[i].approved => Tasks(p)[i].status # "awaiting_approval")

C8_Witness ==
    /\ ev.op = "approve"
    /\ ev.code = 400
    /\ ev.plan \in store
    /\ \E i \in TaskIdx(ev.plan) : Tasks(ev.plan)[i].approved
    /\ plans[ev.plan].status = SUCCEEDED

CallLog(p) == SelectSeq(calls, LAMBDA c : c.plan = p)

(* C9. Terminal plan is inert: once a plan is succeeded or failed, no step  *)
(* changes the plan object (status, tasks, trace, timestamps) or makes a    *)
(* remote call for it, and it has no task running or awaiting approval, so  *)
(* no task of it can be approved and run.                                   *)
C9_TerminalInert ==
    /\ [][ \A p \in store : plans[p].status \in TerminalPlan =>
                (plans'[p] = plans[p] /\ CallLog(p)' = CallLog(p)) ]_vars
    /\ [](\A p \in store : plans[p].status \in TerminalPlan =>
              \A i \in TaskIdx(p) :
                  Tasks(p)[i].status \notin {"running", "awaiting_approval"})

C9_Witness ==
    /\ ev.op = "approve"
    /\ ev.code = 400
    /\ ev.plan \in store
    /\ plans[ev.plan].status = FAILED
    /\ \E i \in TaskIdx(ev.plan) :
          Tasks(ev.plan)[i].requires_approval /\ Tasks(ev.plan)[i].status = "pending"

(* C10. Task terminal states are absorbing: once a task is succeeded,       *)
(* failed or skipped, no step changes any of its fields or makes another    *)
(* remote call for it.                                                      *)
C10_TaskAbsorbing ==
    [][ \A p \in store : \A i \in TaskIdx(p) :
            Tasks(p)[i].status \in TerminalTask =>
                /\ plans'[p].tasks[i] = Tasks(p)[i]
                /\ CallsFor(p, Tasks(p)[i].id)' = CallsFor(p, Tasks(p)[i].id) ]_vars

C10_Witness ==
    \E w \in Workers :
        /\ thr[w].op = "approve"
        /\ thr[w].pc = "exec"
        /\ thr[w].i = 3
        /\ Tasks(thr[w].plan)[1].status = "succeeded"
        /\ Tasks(thr[w].plan)[2].status = "succeeded"

(* C11. Plan terminal status is permanent under concurrency: under every    *)
(* interleaving of requests and the passes they dispatch, once a plan's     *)
(* status is succeeded or failed no step sets it to another value.          *)
C11_TerminalPermanent ==
    [][ \A p \in store : plans[p].status \in TerminalPlan =>
            plans'[p].status = plans[p].status ]_vars

FailureStep ==
    \/ \E k \in DOMAIN calls :
          ~calls[k].done /\ calls'[k].done /\ ~Is2xx(calls'[k].code)
    \/ \E p \in store : \E i \in TaskIdx(p) :
          Tasks(p)[i].status # "failed" /\ plans'[p].tasks[i].status = "failed"

(* C12. awaiting_approval is reachable only through the approval gate: a    *)
(* task awaiting approval requires approval, is not approved, has made no   *)
(* attempt and no remote call; and a step in which a remote call fails or   *)
(* a task becomes failed moves no task and no plan to awaiting_approval.    *)
C12_AwaitingOnlyByGate ==
    /\ [](\A p \in store : \A i \in TaskIdx(p) :
              Tasks(p)[i].status = "awaiting_approval" =>
                  /\ Tasks(p)[i].requires_approval
                  /\ ~Tasks(p)[i].approved
                  /\ Tasks(p)[i].attempts = 0
                  /\ CallsFor(p, Tasks(p)[i].id) = {})
    /\ [][ FailureStep =>
              \A p \in store :
                  /\ plans'[p].status = AWAITING_APPROVAL
                        => plans[p].status = AWAITING_APPROVAL
                  /\ \A i \in TaskIdx(p) :
                        plans'[p].tasks[i].status = "awaiting_approval"
                            => Tasks(p)[i].status = "awaiting_approval" ]_vars

C12_Witness ==
    \E p \in store :
        /\ Len(Tasks(p)) >= 2
        /\ Tasks(p)[1].status = "succeeded"
        /\ FailedCalls(p, Tasks(p)[1].id) # {}
        /\ Tasks(p)[2].status = "awaiting_approval"
        /\ plans[p].status = AWAITING_APPROVAL

(* ---------------------------- two plans -------------------------------- *)
(* Two Start calls, each plan driven by its own requests and passes. The    *)
(* passes of the two plans interleave, each on its own worker; a request    *)
(* for a plan waits for that plan's pass to return; the clock advances      *)
(* between requests.                                                        *)
MaxIsoFaults == 1

IsoIds == {"p1", "p2"}

IsoPlans == {<<Task(1, AgentOf(1), 0, ra)>> : ra \in BOOLEAN}

InitIso ==
    /\ plans = [p \in IsoIds |-> NoPlan]
    /\ store = {}
    /\ clock = 0
    /\ thr = [w \in Workers |-> IdleThr]
    /\ calls = <<>>
    /\ ev = NoEvent
    /\ ServicesInit

NoPassOn(p) == \A w \in Workers : thr[w].pc # "idle" => thr[w].plan # p

RequestIso ==
    \E p \in IsoIds :
        /\ NoPassOn(p)
        /\ \/ \E tasks \in IsoPlans : orchestrate(p, tasks)
           \/ get_status(p)
           \/ \E tid \in {NoTask, 1} : approve(p, tid)

NextIso ==
    \/ AllIdle /\ Tick
    \/ RequestIso
    \/ \E w \in Workers : RunStep(w, MaxIsoFaults)

SpecIso == InitIso /\ [][NextIso]_vars

(* The plans a step operates on: those of the passes that moved, of the     *)
(* pass it dispatched and of the response it sent.                          *)
StepPlans ==
    {thr[w].plan : w \in {v \in Workers : thr[v].pc # "idle" /\ thr'[v] # thr[v]}}
        \cup {thr'[w].plan : w \in {v \in Workers : thr[v].pc = "idle" /\ thr'[v].pc # "idle"}}
        \cup (IF ev'.op # "none" THEN {ev'.plan} ELSE {})

(* C13. Store isolation: every step of an operation on one plan (a step of  *)
(* its pass, Approve, Status, a store update) operates on that plan alone   *)
(* and leaves every other stored plan registered and unchanged (status,     *)
(* tasks, trace, timestamps) with no remote call made for it; and two       *)
(* plans hold no Task object in common.                                     *)
C13_StoreIsolation ==
    /\ [][ /\ clock' = clock => Cardinality(StepPlans) = 1
           /\ \A q \in store : q \notin StepPlans =>
                 /\ q \in store'
                 /\ plans'[q] = plans[q]
                 /\ CallLog(q)' = CallLog(q) ]_vars
    /\ [](\A p, q \in store : p # q =>
              \A i \in TaskIdx(p), j \in TaskIdx(q) : Tasks(p)[i].obj # Tasks(q)[j].obj)

C13_Witness ==
    \E v, w \in Workers :
        /\ thr[v].plan = "p1" /\ thr[v].pc = "wait"
        /\ thr[w].plan = "p2" /\ thr[w].op = "approve" /\ thr[w].pc = "wait"
        /\ plans["p1"].created_at # plans["p2"].created_at

(* C14. Unknown plan id: a step in which Status or Approve answers a        *)
(* request whose id is not in the store answers 404, registers no plan      *)
(* (for that id or any other) and leaves every plan, pass and call          *)
(* unchanged; and 404 is answered to such requests only.                    *)
C14_UnknownId ==
    [][ /\ (ev'.op \in {"get_status", "approve"} /\ ev'.plan \notin store) =>
              /\ ev'.code = 404
              /\ ev'.snap = NoPlan
              /\ store' = store
              /\ UNCHANGED <<plans, clock, thr, calls>>
        /\ ev'.code = 404 =>
              (ev'.op \in {"get_status", "approve"} /\ ev'.plan \notin store)
      ]_vars

C14_Witness ==
    /\ ev.op = "approve"
    /\ ev.code = 404
    /\ ev.plan = UnknownId
    /\ \E p \in store : plans[p].status = AWAITING_APPROVAL

Matches(task, tid) ==
    task.status = "awaiting_approval" /\ (tid = NoTask \/ task.id = tid)

(* What a successful Approve of plan p, naming task tid (or none), does.     *)
ApproveEffect(p, tid) ==
    \E t \in TaskIdx(p) :
        /\ Matches(Tasks(p)[t], tid)
        /\ \A j \in 1..(t - 1) : ~Matches(Tasks(p)[j], tid)
        /\ plans'[p].tasks =
              [Tasks(p) EXCEPT ![t] = [@ EXCEPT !.approved = TRUE, !.status = "pending"]]
        /\ plans'[p].status = plans[p].status
        /\ plans'[p].created_at = plans[p].created_at
        /\ plans'[p].plan_trace =
              Append(plans[p].plan_trace,
                     TraceEntry(clock, "approved by operator", Tasks(p)[t].id, "pending"))
        /\ \A q \in DOMAIN plans : q # p => plans'[q] = plans[q]
        /\ UNCHANGED <<store, calls>>
        /\ \E w \in Workers :
              /\ thr[w].pc = "idle"
              /\ thr' = [thr EXCEPT ![w] = NewPass("approve", p)]

(* C15. Approve target selection and frame: an Approve that is accepted     *)
(* picks the first task in list order that is awaiting approval and, when   *)
(* the request names a task id, has that id; the step sets that task's      *)
(* approved to true and its status to pending, appends one trace entry,     *)
(* changes no other task, not the plan status and no other plan, and only   *)
(* then hands the plan to a new pass, which has not yet taken a step.       *)
C15_ApproveFrame ==
    [][ \A p \in PlanIds : \A tid \in 0..MaxTasks :
            (approve(p, tid) /\ plans' # plans) => ApproveEffect(p, tid) ]_vars

C15_Witness ==
    \E w \in Workers : \E p \in store :
        /\ thr[w].pc = "begin" /\ thr[w].op = "approve" /\ thr[w].plan = p
        /\ Len(Tasks(p)) = 3
        /\ Tasks(p)[2].requires_approval /\ Tasks(p)[2].approved
        /\ Tasks(p)[2].status = "succeeded"
        /\ Tasks(p)[3].requires_approval /\ Tasks(p)[3].approved
        /\ Tasks(p)[3].status = "pending"
        /\ plans[p].status = AWAITING_APPROVAL

Trace(p) == plans[p].plan_trace

(* C16. Trace is append-only: every step leaves the trace of every stored   *)
(* plan as a prefix of the trace after the step, and the first entry of     *)
(* every stored plan's trace is the "Plan created." entry with status       *)
(* pending and no task id.                                                  *)
C16_TraceAppendOnly ==
    /\ [][ \A p \in store :
              /\ Len(Trace(p)') >= Len(Trace(p))
              /\ SubSeq(Trace(p)', 1, Len(Trace(p))) = Trace(p) ]_vars
    /\ [](\A p \in store :
              /\ Len(Trace(p)) >= 1
              /\ Trace(p)[1].message = "Plan created."
              /\ Trace(p)[1].status = PENDING
              /\ Trace(p)[1].task_id = NoTask)

C16_Witness ==
    \E p \in store :
        /\ plans[p].status = SUCCEEDED
        /\ Len(Tasks(p)) = 3
        /\ \E k \in DOMAIN Trace(p) :
              /\ k > 1
              /\ Trace(p)[k].message = "approved by operator"
              /\ k < Len(Trace(p))
        /\ Trace(p)[Len(Trace(p))].message = "Plan completed successfully."

Last(s) == s[Len(s)]

(* The status values a step changed in plan p: the plan's and its tasks'.    *)
NewStatuses(p) ==
    (IF plans'[p].status # plans[p].status THEN {plans'[p].status} ELSE {})
        \cup {plans'[p].tasks[i].status :
                i \in {j \in TaskIdx(p) : plans'[p].tasks[j].status # Tasks(p)[j].status}}

Traced(p) == Len(Trace(p)') > Len(Trace(p))

(* A pass has marked a task awaiting approval (line 44) and has not yet     *)
(* appended the entry for it (line 46).                                     *)
OwesEntry(w, p) == thr[w].plan = p /\ thr[w].pc = "gate_plan"

NextClock ==
    \/ Tick
    \/ NextConc

SpecClock == Init /\ [][NextClock]_vars

(* C18. Trace timestamps are strictly increasing: in every reachable state  *)
(* each entry of a plan's trace has a timestamp strictly greater than the   *)
(* entry before it.                                                         *)
C18_StrictTimestamps ==
    \A p \in store : \A k \in 1..(Len(Trace(p)) - 1) :
        Trace(p)[k + 1].timestamp > Trace(p)[k].timestamp

(* The fields of a task that describe the call to make; agent stands for    *)
(* name, agent, method, url, payload and timeout_seconds, which the planner *)
(* sets together.                                                           *)
Descriptor(task) ==
    [id |-> task.id, agent |-> task.agent, retry_policy |-> task.retry_policy,
     requires_approval |-> task.requires_approval, obj |-> task.obj]

(* C19. Task list is fixed: no step adds, removes or reorders the tasks of  *)
(* a stored plan or changes a task's descriptor fields, and the task ids    *)
(* are in the order the planner gave them.                                  *)
C19_TaskListFixed ==
    /\ [][ \A p \in store :
              /\ Len(plans'[p].tasks) = Len(Tasks(p))
              /\ \A i \in TaskIdx(p) :
                    Descriptor(plans'[p].tasks[i]) = Descriptor(Tasks(p)[i]) ]_vars
    /\ [](\A p \in store : \A i \in TaskIdx(p) :
              Tasks(p)[i].id = i)

C19_Witness ==
    \E p \in store :
        /\ AllIdle
        /\ plans[p].status = FAILED
        /\ Len(Tasks(p)) = 3
        /\ Tasks(p)[1].status = "succeeded"
        /\ Tasks(p)[2].requires_approval /\ Tasks(p)[2].approved
        /\ Tasks(p)[2].status = "succeeded"
        /\ Tasks(p)[3].status = "failed" /\ Tasks(p)[3].attempts = 2

(* C20. No rollback on failure: the step in which a task exhausts its       *)
(* retries and the plan becomes failed, and every step after it, leaves     *)
(* each succeeded task as it was (status, result, attempts, last response   *)
(* code); in a failed plan every task before the failed one is succeeded    *)
(* with a result, at least one attempt and a 2xx last response code.        *)
C20_NoRollback ==
    /\ [][ \A p \in store :
              (plans'[p].status = FAILED \/ plans[p].status = FAILED) =>
                  \A j \in TaskIdx(p) : Tasks(p)[j].status = "succeeded" =>
                      /\ plans'[p].tasks[j].status = "succeeded"
                      /\ plans'[p].tasks[j].result = Tasks(p)[j].result
                      /\ plans'[p].tasks[j].attempts = Tasks(p)[j].attempts
                      /\ plans'[p].tasks[j].last_response_status
                            = Tasks(p)[j].last_response_status ]_vars
    /\ [](\A p \in store : plans[p].status = FAILED =>
              \A i \in TaskIdx(p) : Tasks(p)[i].status = "failed" =>
                  \A j \in 1..(i - 1) :
                      /\ Tasks(p)[j].status = "succeeded"
                      /\ Tasks(p)[j].result \in {"json", "raw"}
                      /\ Tasks(p)[j].attempts >= 1
                      /\ Is2xx(Tasks(p)[j].last_response_status))

C20_Witness ==
    \E p \in store :
        /\ plans[p].status = FAILED
        /\ Len(Tasks(p)) >= 2
        /\ Tasks(p)[1].status = "succeeded"
        /\ Tasks(p)[1].result = "raw"
        /\ Tasks(p)[1].last_response_status = 204
        /\ Tasks(p)[2].status = "failed"
        /\ Tasks(p)[2].error = ExcError

(* C21. Reference planner shape: whenever Start calls the planner, the      *)
(* planner returns exactly three tasks, in the order analyzer, triage,      *)
(* remediation, each pending with approved false and no attempts, and only  *)
(* the third one requires approval.                                         *)
C21_PlannerShape ==
    LET tasks == NewTasks(generate_plan, Cardinality(store) + 1)
    IN  /\ Len(tasks) = 3
        /\ [i \in 1..3 |-> tasks[i].agent] = <<"analyzer", "triage", "remediation">>
        /\ \A i \in 1..3 :
            /\ tasks[i].status = "pending"
            /\ tasks[i].approved = FALSE
            /\ tasks[i].attempts = 0
            /\ tasks[i].requires_approval = (i = 3)

(* A plan has just been registered with the reference planner's tasks.      *)
C21_Witness ==
    \E p \in store :
        /\ plans[p].tasks = NewTasks(generate_plan, 1)
        /\ Len(plans[p].plan_trace) = 1

(* ---------------------------- collector -------------------------------- *)
(* COLLECTOR_BUFFER_MAX_EVENTS is configuration; the model runs the         *)
(* collector with room for two events.                                      *)
BUFFER_MAX_EVENTS == 2
MaxPush == 2
Bodies == {"login failed", "login ok"}

(* A log entry is a body and an optional timestamp; a request carries a     *)
(* list of entries or a body no entry list can be extracted from.           *)
NoTimestamp == 0
Entries == [body : Bodies, timestamp : {NoTimestamp, 1}]
Payload(supported, entries) == [supported |-> supported, entries |-> entries]
BadPayload == Payload(FALSE, <<>>)
Payloads ==
    {Payload(TRUE, e) : e \in UNION {[1..n -> Entries] : n \in 0..MaxPush}}
        \cup {BadPayload}
(* One reading of the wall clock per request; it may step back.             *)
Nows == {1, 2}
(* What the outbound POST of a flush may meet.                              *)
SendOutcomes == {<<"status", 200>>, <<"status", 500>>, <<"exception", 0>>}

(* json.dumps(entry, sort_keys=True): every field of the entry, by key.     *)
raw_snippet(entry) == <<"body", entry.body, "timestamp", entry.timestamp>>

(* The digest is taken collision-free on the snippets above.                *)
compute_sha256(raw) == <<"sha256", raw>>

parse_timestamp(value, now) == IF value = NoTimestamp THEN now ELSE value

normalize_log_entry(entry, now) ==
    [timestamp |-> parse_timestamp(entry.timestamp, now),
     raw_snippet |-> raw_snippet(entry)]

Put(index, digest, event) ==
    [d \in DOMAIN index \cup {digest} |-> IF d = digest THEN event ELSE index[d]]

(* Variant: the loop does not look at the buffer's length. *)
RECURSIVE ingestNoBound(_, _, _, _)
ingestNoBound(st, entries, k, now) ==
    IF k > Len(entries) THEN st
    ELSE LET event == normalize_log_entry(entries[k], now)
             digest == compute_sha256(event.raw_snippet)
         IN  IF digest \in DOMAIN st.index
             THEN ingestNoBound([st EXCEPT !.deduped_count = @ + 1], entries, k + 1, now)
             ELSE ingestNoBound([st EXCEPT
                                   !.buffer = Append(@, event),
                                   !.index = Put(@, digest, event),
                                   !.accepted_count = @ + 1],
                                entries, k + 1, now)

(* The loop of pubsub_push from entry k on. The event an index entry names  *)
(* is the object held in the buffer, so a timestamp written through the     *)
(* index shows in the buffer.                                               *)
RECURSIVE ingest(_, _, _, _)
ingest(st, entries, k, now) ==
    IF k > Len(entries) THEN st
    ELSE LET event == normalize_log_entry(entries[k], now)
             digest == compute_sha256(event.raw_snippet)
         IN  IF digest \in DOMAIN st.index
             THEN LET existing == st.index[digest]
                      kept == IF event.timestamp < existing.timestamp
                                 THEN [existing EXCEPT !.timestamp = event.timestamp]
                                 ELSE existing
                  IN  ingest([st EXCEPT
                                !.index[digest] = kept,
                                !.buffer = [i \in DOMAIN st.buffer |->
                                    IF compute_sha256(st.buffer[i].raw_snippet) = digest
                                       THEN kept ELSE st.buffer[i]],
                                !.deduped_count = @ + 1],
                             entries, k + 1, now)
             ELSE IF Len(st.buffer) >= BUFFER_MAX_EVENTS
             THEN st
             ELSE ingest([st EXCEPT
                            !.buffer = Append(@, event),
                            !.index = Put(@, digest, event),
                            !.accepted_count = @ + 1],
                         entries, k + 1, now)

Flushed == IF reply.op = "flush" /\ reply.code = 200 THEN reply.events ELSE <<>>

Answer(op, code, entries) ==
    [NoReply EXCEPT !.op = op, !.code = code, !.entries = entries,
                    !.buffer = EVENT_BUFFER, !.index = DEDUP_INDEX,
                    !.flushed = Flushed]

(* POST /pubsub/push *)
pubsub_push(payload, now) ==
    /\ IF ~payload.supported
          THEN /\ reply' = Answer("push", 400, <<>>)
               /\ UNCHANGED <<EVENT_BUFFER, DEDUP_INDEX>>
          ELSE LET st == ingest([buffer |-> EVENT_BUFFER, index |-> DEDUP_INDEX,
                                 accepted_count |-> 0, deduped_count |-> 0],
                                payload.entries, 1, now)
               IN  /\ EVENT_BUFFER' = st.buffer
                   /\ DEDUP_INDEX' = st.index
                   /\ reply' = [Answer("push", 200, payload.entries) EXCEPT
                                  !.accepted_count = st.accepted_count,
                                  !.deduped_count = st.deduped_count]
    /\ UNCHANGED <<engine, remediation, analyzer, SIMULATION_MODE>>

FlushAnswer(payload) ==
    [Answer("flush", 200, <<>>) EXCEPT !.event_count = Len(payload), !.events = payload]

(* Variant: a flush empties the buffer and keeps the index. *)
collect_flushKeepsIndex(outcome) ==
    /\ EVENT_BUFFER' = <<>>
    /\ reply' = FlushAnswer(EVENT_BUFFER)
    /\ UNCHANGED <<engine, remediation, analyzer, DEDUP_INDEX, SIMULATION_MODE>>

(* POST /collect/flush *)
collect_flush(outcome) ==
    /\ LET payload == EVENT_BUFFER
       IN  IF SIMULATION_MODE
              THEN /\ EVENT_BUFFER' = <<>>
                   /\ DEDUP_INDEX' = EmptyIndex
                   /\ reply' = FlushAnswer(payload)
           ELSE IF payload = <<>>
              THEN /\ reply' = FlushAnswer(<<>>)
                   /\ UNCHANGED <<EVENT_BUFFER, DEDUP_INDEX>>
           ELSE IF outcome[1] = "exception" \/ ~Is2xx(outcome[2])
              THEN /\ reply' = Answer("flush", 502, <<>>)
                   /\ UNCHANGED <<EVENT_BUFFER, DEDUP_INDEX>>
           ELSE /\ EVENT_BUFFER' = <<>>
                /\ DEDUP_INDEX' = EmptyIndex
                /\ reply' = FlushAnswer(payload)
    /\ UNCHANGED <<engine, remediation, analyzer, SIMULATION_MODE>>

InitCollector ==
    /\ EngineInit
    /\ CollectorInit
    /\ SIMULATION_MODE \in BOOLEAN
    /\ RemediationInit
    /\ AnalyzerInit

NextCollector ==
    \/ \E payload \in Payloads, now \in Nows : pubsub_push(payload, now)
    \/ \E outcome \in SendOutcomes : collect_flush(outcome)

SpecCollector == InitCollector /\ [][NextCollector]_vars

Digests(buffer) == {compute_sha256(buffer[i].raw_snippet) : i \in DOMAIN buffer}

(* The index as entry k of the request found it: what was indexed before    *)
(* the request, and what the request has put into the buffer by then.       *)
Indexed(k) ==
    LET digest == compute_sha256(raw_snippet(reply.entries[k]))
    IN  \/ digest \in DOMAIN reply.index
        \/ /\ digest \in DOMAIN DEDUP_INDEX
           /\ \E j \in 1..(k - 1) : compute_sha256(raw_snippet(reply.entries[j])) = digest

(* C22. Collector deduplication: the buffer never holds two events with the *)
(* same raw-snippet digest, the dedup index has exactly one entry per       *)
(* buffered event, and every pushed entry whose digest is already indexed   *)
(* adds one to deduped_count, leaves the buffer length alone and is not     *)
(* counted as accepted.                                                     *)
C22_Deduplication ==
    /\ \A i, j \in DOMAIN EVENT_BUFFER :
        compute_sha256(EVENT_BUFFER[i].raw_snippet)
            = compute_sha256(EVENT_BUFFER[j].raw_snippet) => i = j
    /\ DOMAIN DEDUP_INDEX = Digests(EVENT_BUFFER)
    /\ \A i \in DOMAIN EVENT_BUFFER :
        DEDUP_INDEX[compute_sha256(EVENT_BUFFER[i].raw_snippet)] = EVENT_BUFFER[i]
    /\ (reply.op = "push" /\ reply.code = 200) =>
        /\ reply.deduped_count
             = Cardinality({k \in DOMAIN reply.entries : Indexed(k)})
        /\ Len(EVENT_BUFFER) = Len(reply.buffer) + reply.accepted_count
        /\ reply.accepted_count
             <= Cardinality({k \in DOMAIN reply.entries : ~Indexed(k)})

Snippets(events) == {events[i].raw_snippet : i \in DOMAIN events}

(* C23. Collector flush: a flush in simulation mode, or one whose send got  *)
(* a 2xx answer, returns the buffered events in insertion order with        *)
(* event_count the buffer length before the flush and leaves buffer and     *)
(* dedup index empty, so that an entry pushed again right after it is       *)
(* accepted, not deduplicated; a flush whose send fails leaves buffer and   *)
(* index as they were.                                                      *)
C23_Flush ==
    /\ (reply.op = "flush" /\ reply.code = 200) =>
        /\ reply.events = reply.buffer
        /\ reply.event_count = Len(reply.buffer)
        /\ EVENT_BUFFER = <<>>
        /\ DEDUP_INDEX = EmptyIndex
    /\ (reply.op = "flush" /\ reply.code # 200) =>
        /\ EVENT_BUFFER = reply.buffer
        /\ DEDUP_INDEX = reply.index
    /\ (reply.op = "push" /\ reply.code = 200 /\ reply.flushed # <<>>) =>
        \A k \in DOMAIN reply.entries :
            (raw_snippet(reply.entries[k]) \in Snippets(reply.flushed)
                    /\ k <= BUFFER_MAX_EVENTS) =>
                /\ compute_sha256(raw_snippet(reply.entries[k])) \notin DOMAIN reply.index
                /\ compute_sha256(raw_snippet(reply.entries[k])) \in DOMAIN DEDUP_INDEX
                /\ reply.accepted_count >= 1

(* With the send answered 2xx, two events were flushed and the first of     *)
(* them has been pushed again and accepted.                                 *)
C23_Witness ==
    /\ ~SIMULATION_MODE
    /\ reply.op = "push"
    /\ Len(reply.flushed) = 2
    /\ Len(reply.entries) = 1
    /\ raw_snippet(reply.entries[1]) = reply.flushed[1].raw_snippet
    /\ reply.accepted_count = 1
    /\ Len(EVENT_BUFFER) = 1

(* ---------------------------- remediation ------------------------------ *)
PLAYBOOK_ACTION_TYPES ==
    [block_ip |-> <<"block_ip">>,
     block_ip_then_snapshot |-> <<"block_ip", "snapshot_vm">>]

(* Action types a policy may name; no playbook holds the third one.         *)
ActionTypes == {"block_ip", "snapshot_vm", "isolate_host"}
Playbooks == DOMAIN PLAYBOOK_ACTION_TYPES \cup {"unknown"}

RemediationPolicy == [safe_auto : SUBSET ActionTypes, forbidden_actions : SUBSET ActionTypes]

RemediationRequests ==
    [playbook : Playbooks, auto_authorization : BOOLEAN,
     policy : RemediationPolicy, run_mode : {"simulation", "execute"}]

NoToolCall == [tool |-> "none"]

simulate_tool_call(action_type, req) ==
    [tool |-> action_type, simulated |-> TRUE, run_mode |-> req.run_mode]

(* Variant: an auto-authorized safe action runs before the forbidden list is read. *)
RemediationActionAutoFirst(a_type, req) ==
    IF req.auto_authorization /\ a_type \in req.policy.safe_auto
    THEN [type |-> a_type, allowed |-> TRUE, status |-> "executed",
          authorization |-> "auto_authorized",
          tool_call |-> simulate_tool_call(a_type, req)]
    ELSE IF a_type \in req.policy.forbidden_actions
    THEN [type |-> a_type, allowed |-> FALSE, status |-> "skipped_forbidden",
          authorization |-> "not_required", tool_call |-> NoToolCall]
    ELSE [type |-> a_type, allowed |-> TRUE, status |-> "awaiting_approval",
          authorization |-> "awaiting_approval", tool_call |-> NoToolCall]

(* One turn of the loop of execute_remediation.                             *)
RemediationAction(a_type, req) ==
    IF a_type \in req.policy.forbidden_actions
    THEN [type |-> a_type, allowed |-> FALSE, status |-> "skipped_forbidden",
          authorization |-> "not_required", tool_call |-> NoToolCall]
    ELSE IF req.auto_authorization /\ a_type \in req.policy.safe_auto
    THEN [type |-> a_type, allowed |-> TRUE, status |-> "executed",
          authorization |-> "auto_authorized",
          tool_call |-> simulate_tool_call(a_type, req)]
    ELSE [type |-> a_type, allowed |-> TRUE, status |-> "awaiting_approval",
          authorization |-> "awaiting_approval", tool_call |-> NoToolCall]

overall_status(actions) ==
    LET any_awaiting == \E i \in DOMAIN actions : actions[i].status = "awaiting_approval"
        any_executed == \E i \in DOMAIN actions : actions[i].status = "executed"
        any_forbidden == \E i \in DOMAIN actions : actions[i].status = "skipped_forbidden"
    IN  IF any_forbidden /\ ~any_executed /\ ~any_awaiting THEN "failed"
        ELSE IF any_forbidden \/ (any_executed /\ any_awaiting) THEN "partial"
        ELSE IF any_awaiting THEN "awaiting_approval"
        ELSE "all_executed"

execute_remediation(req) ==
    LET types == PLAYBOOK_ACTION_TYPES[req.playbook]
        actions == [i \in DOMAIN types |-> RemediationAction(types[i], req)]
    IN  [code |-> 200, playbook |-> req.playbook, run_mode |-> req.run_mode,
         overall_status |-> overall_status(actions), actions |-> actions]

(* POST /remediate: an unknown playbook is a 400.                           *)
remediate ==
    /\ remediation_request # NoRequest
    /\ remediation_result = NoResult
    /\ remediation_result' =
         IF remediation_request.playbook \notin DOMAIN PLAYBOOK_ACTION_TYPES
            THEN [code |-> 400]
            ELSE execute_remediation(remediation_request)
    /\ UNCHANGED <<engine, collector, analyzer, remediation_request>>

InitRemediation ==
    /\ EngineInit
    /\ CollectorInit
    /\ SIMULATION_MODE = TRUE
    /\ AnalyzerInit
    /\ remediation_request \in RemediationRequests
    /\ remediation_result = NoResult

NextRemediation == remediate

SpecRemediation == InitRemediation /\ [][NextRemediation]_vars

(* C24. Remediation authorization: in the result of a remediation run an    *)
(* action is executed, with a tool call, only if auto_authorization is true *)
(* and its type is in policy.safe_auto and not in policy.forbidden_actions; *)
(* every action of a forbidden type is skipped_forbidden whatever           *)
(* auto_authorization is; overall_status is all_executed exactly when every *)
(* action is executed and awaiting_approval exactly when every action is    *)
(* awaiting approval.                                                       *)
C24_Authorization ==
    remediation_result.code = 200 =>
        LET req == remediation_request
            acts == remediation_result.actions
        IN  /\ \A i \in DOMAIN acts :
                /\ (acts[i].status = "executed" \/ acts[i].tool_call # NoToolCall) =>
                    /\ acts[i].status = "executed"
                    /\ acts[i].tool_call # NoToolCall
                    /\ req.auto_authorization
                    /\ acts[i].type \in req.policy.safe_auto
                    /\ acts[i].type \notin req.policy.forbidden_actions
                /\ acts[i].type \in req.policy.forbidden_actions =>
                    acts[i].status = "skipped_forbidden"
            /\ remediation_result.overall_status = "all_executed"
                <=> \A i \in DOMAIN acts : acts[i].status = "executed"
            /\ remediation_result.overall_status = "awaiting_approval"
                <=> \A i \in DOMAIN acts : acts[i].status = "awaiting_approval"

(* An auto-authorized run of the two-action playbook in which the first     *)
(* action is safe and executed and the second is forbidden though safe.     *)
C24_Witness ==
    /\ remediation_result.code = 200
    /\ remediation_request.auto_authorization
    /\ Len(remediation_result.actions) = 2
    /\ remediation_result.actions[1].status = "executed"
    /\ remediation_result.actions[2].type \in remediation_request.policy.safe_auto
    /\ remediation_result.actions[2].status = "skipped_forbidden"

(* ---------------------------- analyzer --------------------------------- *)
MaxEvents == 2
max_attempts == 3

(* What call_gemini may return: a JSON object with one or two well-formed   *)
(* alerts, one without the alerts key, one whose alert lacks a field, a     *)
(* JSON value that is no object, and three kinds of text json.loads rejects. *)
Parseable == {"alerts_1", "alerts_2", "no_alerts", "bad_alert", "not_object"}
Unparseable == {"prose", "truncated", "empty"}
LlmOutputs == Parseable \cup Unparseable

AlertsOf(output) == IF output = "alerts_1" THEN 1 ELSE 2

Prompt(attempt, last_output) ==
    IF attempt = 0 THEN <<"analysis">> ELSE <<"json_fix", last_output>>

(* The answer of analyze once an output has parsed (lines 110-138).         *)
Respond(a, output) ==
    IF output = "not_object" THEN [a EXCEPT !.pc = "done", !.code = 500]
    ELSE IF output \in {"no_alerts", "bad_alert"} THEN [a EXCEPT !.pc = "done", !.code = 502]
    ELSE [a EXCEPT !.pc = "done", !.code = 200, !.parsing_attempts = a.attempts,
                   !.alerts = AlertsOf(output)]

(* POST /agent/analyze, up to the first call of the LLM.                    *)
analyze(n) ==
    /\ analysis.pc = "idle"
    /\ analysis' = IF n = 0
                      THEN [NoAnalysis EXCEPT !.pc = "done", !.code = 400]
                      ELSE [NoAnalysis EXCEPT !.pc = "call", !.events = n]
    /\ UNCHANGED <<engine, collector, remediation>>

(* One turn of the loop of _parse_llm_json_with_retries; a parsed output    *)
(* ends the request.                                                        *)
parse_llm_json_with_retries(output) ==
    /\ analysis.pc = "call"
    /\ LET attempt == analysis.attempts
           last_output == IF attempt = 0 THEN "none" ELSE analysis.outputs[attempt]
           called == [analysis EXCEPT
                        !.attempts = @ + 1,
                        !.prompts = Append(@, Prompt(attempt, last_output)),
                        !.outputs = Append(@, output)]
           warned == [called EXCEPT !.warnings = Append(@, called.attempts)]
       IN  analysis' =
             IF output \in Parseable THEN Respond(called, output)
             ELSE IF called.attempts < max_attempts THEN warned
             ELSE [warned EXCEPT !.pc = "done", !.code = 502]
    /\ UNCHANGED <<engine, collector, remediation>>

InitAnalyzer ==
    /\ EngineInit
    /\ CollectorInit
    /\ SIMULATION_MODE = TRUE
    /\ RemediationInit
    /\ AnalyzerInit

NextAnalyzer ==
    \/ \E n \in 0..MaxEvents : analyze(n)
    \/ \E output \in LlmOutputs : parse_llm_json_with_retries(output)

SpecAnalyzer == InitAnalyzer /\ [][NextAnalyzer]_vars

FailedParses == {k \in DOMAIN analysis.outputs : analysis.outputs[k] \in Unparseable}

(* C25. Analyzer JSON repair: one analyze request makes at most two LLM     *)
(* calls, the first and one repair call; parsing_attempts is the number of  *)
(* LLM calls made, warnings holds one entry per failed parse, and a request *)
(* none of whose calls gave parseable JSON fails with 502.                  *)
C25_JsonRepair ==
    /\ Len(analysis.outputs) <= 2
    /\ Len(analysis.warnings) = Cardinality(FailedParses)
    /\ (analysis.pc = "done" /\ analysis.code = 200) =>
        analysis.parsing_attempts = Len(analysis.outputs)
    /\ (analysis.pc = "done" /\ analysis.outputs # <<>>
            /\ FailedParses = DOMAIN analysis.outputs) =>
        analysis.code = 502

(* ---------------------------- overlapping passes ----------------------- *)
PassesOn(p) == {w \in Workers : thr[w].pc # "idle" /\ thr[w].plan = p}

DispatchesApprove(p) ==
    \E v \in Workers :
        /\ thr[v].pc = "idle"
        /\ thr'[v] = NewPass("approve", p)

(* C26. Overlapping passes are possible: nothing serializes the passes of   *)
(* one plan id. Whenever a pass has marked a task awaiting_approval and has *)
(* not yet written the plan status or persisted, and a worker thread is     *)
(* free, an Approve request for that plan can be taken and dispatches a     *)
(* second pass on the same plan object.                                     *)
C26_OverlapAdmitted ==
    \A w \in Workers :
        ( /\ thr[w].pc \in {"gate_plan", "gate_save"}
          /\ ApproveTarget(plans[thr[w].plan], NoTask) # 0
          /\ FreeWorkers # {} )
        => ENABLED (RequestConc /\ DispatchesApprove(thr[w].plan))

(* Two passes of one plan are in flight: Start's pass has marked the task   *)
(* and not yet written the plan status, the pass Approve dispatched is      *)
(* waiting for the answer to its remote call.                               *)
C26_Witness ==
    \E p \in store : \E v, w \in PassesOn(p) :
        /\ thr[v].op = "orchestrate" /\ thr[v].pc = "gate_plan"
        /\ thr[w].op = "approve" /\ thr[w].pc = "wait"

(* A pass is in flight from its dispatch until _run_plan returns; between   *)
(* lines 45 and 52 it is finishing its gate return.                         *)
GateReturn == {"gate_plan", "gate_save"}
Executing(p) == {w \in PassesOn(p) : thr[w].pc \notin GateReturn \cup {"ret"}}

(* C27. No duplicated task execution through the control surface: with      *)
(* passes started only by Start and Approve, every remote call made for the *)
(* task a pass is executing was made by that pass, at most one in-flight    *)
(* pass of a plan is in its task-execution phase, and every other in-flight *)
(* pass of that plan has marked a task awaiting_approval and is finishing   *)
(* its gate return.                                                         *)
C27_NoDuplicateExecution ==
    \A p \in store :
        /\ Cardinality(Executing(p)) <= 1
        /\ \A w \in PassesOn(p) :
            /\ thr[w].pc \in {"attempt", "wait"} =>
                Cardinality(CallsFor(p, Tasks(p)[thr[w].i].id)) = thr[w].attempt
            /\ (thr[w].pc # "ret" /\ w \notin Executing(p)) =>
                /\ thr[w].pc \in GateReturn
                /\ thr[w].i \in TaskIdx(p)
                /\ Tasks(p)[thr[w].i].requires_approval

(* The pass Approve dispatched has made a remote call while the pass that   *)
(* marked the task is still finishing its gate return.                      *)
C27_Witness ==
    \E p \in store : \E v, w \in PassesOn(p) :
        /\ thr[v].pc = "gate_save"
        /\ thr[w].op = "approve" /\ thr[w].pc = "attempt" /\ thr[w].attempt = 1
        /\ thr[w].i = thr[v].i

Awaiting(p) == {i \in TaskIdx(p) : Tasks(p)[i].status = "awaiting_approval"}
NonTerminal(p) == {i \in TaskIdx(p) : Tasks(p)[i].status \notin TerminalTask}

(* C28. Paused-state consistency: whenever no Start or Approve operation,   *)
(* its pass included, is in progress for a plan, the plan is                *)
(* awaiting_approval if and only if exactly one task is awaiting_approval,  *)
(* and that task is then the first non-terminal task and every task before  *)
(* it is succeeded; at no time are two tasks of a plan awaiting_approval.   *)
C28_PausedConsistency ==
    \A p \in store :
        /\ Cardinality(Awaiting(p)) <= 1
        /\ PassesOn(p) = {} =>
            /\ plans[p].status = AWAITING_APPROVAL <=> Cardinality(Awaiting(p)) = 1
            /\ \A i \in Awaiting(p) :
                /\ \A j \in NonTerminal(p) : i <= j
                /\ \A j \in 1..(i - 1) : Tasks(p)[j].status = "succeeded"

(* ---------------------------- any task list ---------------------------- *)
(* Task.status is a field the planner may set (models.py:40): a planner     *)
(* that hands over tasks in any of the statuses the model names, one        *)
(* request at a time.                                                       *)
MaxAnyTasks == 2
MaxAnyFaults == 1

TaskStatuses == {"pending", "running", "succeeded", "failed", "awaiting_approval", "skipped"}

AnyPlans ==
    UNION { { [i \in 1..n |-> [Task(i, AgentOf(i), 0, ra[i]) EXCEPT !.status = st[i]]] :
                ra \in [1..n -> BOOLEAN], st \in [1..n -> TaskStatuses] }
            : n \in 0..MaxAnyTasks }

RequestAny ==
    \/ \E p \in PlanIds, tasks \in AnyPlans : orchestrate(p, tasks)
    \/ \E p \in PlanIds : get_status(p)
    \/ \E p \in PlanIds, tid \in 0..MaxAnyTasks : approve(p, tid)

NextAny ==
    \/ AllIdle /\ RequestAny
    \/ \E w \in Workers : RunStep(w, MaxAnyFaults)

SpecAny == Init /\ [][NextAny]_vars

(* C29. A runner pass always decides the plan's terminal or paused state:   *)
(* whenever a pass returns, the plan is awaiting_approval, succeeded or     *)
(* failed, never pending or running, whatever task list the plan holds.     *)
C29_PassDecides ==
    [][ \A w \in Workers :
            (thr[w].pc \notin {"idle", "ret"} /\ thr'[w].pc = "ret") =>
                plans'[thr[w].plan].status \in {AWAITING_APPROVAL, SUCCEEDED, FAILED}
      ]_vars

(* ---------------------------- progress --------------------------------- *)
(* Worker threads keep running, every remote call is answered, and a task   *)
(* that is awaiting approval is approved in the end.                        *)
Approved(p) == approve(p, NoTask) /\ thr' # thr

Fairness ==
    /\ \A w \in Workers : WF_vars(RunStep(w, MaxConcFaults))
    /\ \A p \in PlanIds : WF_vars(Approved(p))

SpecLive == Init /\ [][NextConc]_vars /\ Fairness

(* C30. Progress to a terminal state: if every remote call returns and      *)
(* every task that becomes awaiting_approval is eventually approved, every  *)
(* runner pass terminates and every started plan has status succeeded or    *)
(* failed at some time, however Approve calls interleave with passes in     *)
(* flight.                                                                  *)
C30_Progress ==
    /\ \A w \in Workers : (thr[w].pc # "idle") ~> (thr[w].pc = "idle")
    /\ \A p \in PlanIds : <>(p \in store) => <>(plans[p].status \in TerminalPlan)

(* The pass Approve dispatched has brought the plan to a terminal status    *)
(* while the pass that marked the task is still before its line 45.         *)
C30_Witness ==
    \E p \in store : \E v \in PassesOn(p) :
        /\ thr[v].op = "orchestrate" /\ thr[v].pc = "gate_plan"
        /\ plans[p].status \in TerminalPlan

(* ---------------------------- plan and tasks --------------------------- *)
(* C31. Plan success reflects its tasks: in every reachable state, a plan   *)
(* whose status is succeeded has every task succeeded, and a plan whose     *)
(* status is failed has at least one task failed with attempts equal to its *)
(* max_retries + 1.                                                         *)
C31_PlanReflectsTasks ==
    \A p \in store :
        /\ plans[p].status = SUCCEEDED =>
               \A i \in TaskIdx(p) : Tasks(p)[i].status = "succeeded"
        /\ plans[p].status = FAILED =>
               \E i \in TaskIdx(p) :
                   /\ Tasks(p)[i].status = "failed"
                   /\ Tasks(p)[i].attempts = Tasks(p)[i].retry_policy.max_retries + 1

(* A plan has failed on its second task after a retry, the first task       *)
(* having succeeded.                                                        *)
C31_Witness ==
    \E p \in store :
        /\ plans[p].status = FAILED
        /\ Len(Tasks(p)) >= 2
        /\ Tasks(p)[1].status = "succeeded"
        /\ Tasks(p)[2].status = "failed" /\ Tasks(p)[2].attempts = 2

(* ---------------------------- status codes ----------------------------- *)
(* One Start at a time on a short plan, the agent endpoints answering with  *)
(* status codes on both sides of the two ends of the 2xx range.             *)
MaxCodeTasks == 1
MaxCodeFaults == 1

StatusCodes == {199, 200, 299, 300, 404}
CodeResponses == {<<c, "json">> : c \in StatusCodes}

RequestCodes ==
    \/ \E p \in PlanIds, tasks \in PlansUpTo(MaxCodeTasks) : orchestrate(p, tasks)
    \/ \E p \in PlanIds : get_status(p)
    \/ \E p \in PlanIds : approve(p, NoTask)

RunStepCodes(w) ==
    \/ RunStep(w, MaxCodeFaults)
    \/ \E r \in CodeResponses : RunResponse(w, r[1], r[2], MaxCodeFaults)

NextCodes ==
    \/ AllIdle /\ RequestCodes
    \/ \E w \in Workers : RunStepCodes(w)

SpecCodes == Init /\ [][NextCodes]_vars

(* The answer a pass waiting for its remote call has just received.         *)
Answered(w) == thr[w].pc = "wait" /\ thr'[w].pc # "wait"

(* C32. Success classification: an attempt is a success exactly when the    *)
(* remote call returns a response with status code c, 200 <= c < 300: the   *)
(* task becomes succeeded with that code as its last response code and the  *)
(* retry loop is left. After any other code, and after a transport or       *)
(* timeout exception, the task is still running, the attempt stays counted  *)
(* in attempts and in the budget of the loop. A succeeded task has its last *)
(* response code in [200, 300).                                             *)
C32_SuccessClassification ==
    /\ [](\A p \in store : \A i \in TaskIdx(p) :
            Tasks(p)[i].status = "succeeded" =>
                /\ 200 <= Tasks(p)[i].last_response_status
                /\ Tasks(p)[i].last_response_status < 300)
    /\ [][ \A w \in Workers : Answered(w) =>
            LET p == thr[w].plan
                i == thr[w].i
                c == calls'[thr[w].call]
                t == plans'[p].tasks[i]
            IN  /\ c.done
                /\ (200 <= c.code /\ c.code < 300) <=> (t.status = "succeeded")
                /\ t.attempts = plans[p].tasks[i].attempts
                /\ t.attempts = thr[w].attempt
                /\ thr'[w].attempt = thr[w].attempt
                /\ IF t.status = "succeeded"
                     THEN /\ t.last_response_status = c.code
                          /\ thr'[w].succeeded
                          /\ thr'[w].pc = "loop"
                     ELSE /\ t.status = "running"
                          /\ ~thr'[w].succeeded
                          /\ thr'[w].pc = "attempt"
          ]_vars

(* A task has succeeded on a 299 after an attempt answered with 300.        *)
C32_Witness ==
    \E p \in store : \E i \in TaskIdx(p) :
        /\ Tasks(p)[i].status = "succeeded"
        /\ Tasks(p)[i].last_response_status = 299
        /\ Tasks(p)[i].attempts = 2
        /\ \E k \in CallsFor(p, Tasks(p)[i].id) : calls[k].done /\ calls[k].code = 300

(* C33. attempts changes only while running: no step decreases a task's     *)
(* attempts; a step that increases it adds one and finds and leaves the     *)
(* task running; while a task is pending, awaiting_approval, succeeded,     *)
(* failed or skipped no step changes its attempts, so a pass resumed by     *)
(* Approve leaves the attempts of every completed task alone.               *)
C33_AttemptsWhileRunning ==
    [][ \A p \in store : \A i \in TaskIdx(p) :
            LET t == plans[p].tasks[i]
                u == plans'[p].tasks[i]
            IN  /\ u.attempts >= t.attempts
                /\ u.attempts # t.attempts =>
                       /\ u.attempts = t.attempts + 1
                       /\ t.status = "running"
                       /\ u.status = "running"
                /\ t.status \in {"pending", "awaiting_approval"} \cup TerminalTask =>
                       u.attempts = t.attempts
      ]_vars

(* The pass Approve dispatched has made its first attempt on the gated task *)
(* and the task before it, completed by the first pass, has its attempts.   *)
C33_Witness ==
    \E p \in store : \E w \in Workers :
        /\ thr[w].plan = p /\ thr[w].op = "approve" /\ thr[w].pc = "wait"
        /\ thr[w].i >= 2
        /\ Tasks(p)[thr[w].i].attempts = 1
        /\ Tasks(p)[thr[w].i].status = "running"
        /\ Tasks(p)[thr[w].i - 1].status = "succeeded"
        /\ Tasks(p)[thr[w].i - 1].attempts = 2

(* ---------------------------- store updates ---------------------------- *)
(* save_plan (state.py:31) reads the clock and then assigns updated_at; the *)
(* lock of line 32 is taken after both. Another thread may run between the  *)
(* reading and the assignment. A pass either saves in one step or reads the *)
(* clock into its local now and assigns in a later step.                    *)
MaxSaveFaults == 1

(* line 51, state.py:31 up to the call of datetime.utcnow() *)
RunGateSaveRead(w) ==
    /\ thr[w].pc = "gate_save"
    /\ thr' = [thr EXCEPT ![w].pc = "store", ![w].now = clock]
    /\ ev' = NoEvent
    /\ UNCHANGED <<services, plans, store, clock, calls>>

(* lines 104-112, state.py:31 up to the call of datetime.utcnow() *)
RunFailRead(w) ==
    /\ thr[w].pc = "attempt"
    /\ ~(thr[w].attempt < thr[w].max_attempts)
    /\ ~thr[w].succeeded
    /\ LET p == thr[w].plan
           i == thr[w].i
           p1 == [plans[p] EXCEPT !.tasks[i].status = "failed", !.status = FAILED]
       IN  plans' = [plans EXCEPT ![p] =
                        add_trace(p1, clock, "failed after attempts",
                                  p1.tasks[i].id, p1.tasks[i].status)]
    /\ thr' = [thr EXCEPT ![w].pc = "store", ![w].now = clock]
    /\ ev' = NoEvent
    /\ UNCHANGED <<services, store, clock, calls>>

(* lines 115-120, state.py:31 up to the call of datetime.utcnow() *)
RunFinishRead(w) ==
    /\ thr[w].pc = "finish"
    /\ LET p == thr[w].plan
       IN  plans' = [plans EXCEPT ![p] =
                        IF AllSucceeded(plans[p])
                        THEN add_trace([plans[p] EXCEPT !.status = SUCCEEDED], clock,
                                       "Plan completed successfully.", NoTask, SUCCEEDED)
                        ELSE plans[p]]
    /\ thr' = [thr EXCEPT ![w].pc = "store", ![w].now = clock]
    /\ ev' = NoEvent
    /\ UNCHANGED <<services, store, clock, calls>>

(* state.py:31-33, the assignment of the time read, and the return *)
SaveStore(w) ==
    /\ thr[w].pc = "store"
    /\ plans' = [plans EXCEPT ![thr[w].plan] = save_plan(@, thr[w].now)]
    /\ thr' = Goto(w, "ret")
    /\ ev' = NoEvent
    /\ UNCHANGED <<services, store, clock, calls>>

RunStepSave(w) ==
    \/ RunStep(w, MaxSaveFaults)
    \/ RunGateSaveRead(w)
    \/ RunFailRead(w)
    \/ RunFinishRead(w)
    \/ SaveStore(w)

NextSave ==
    \/ Tick
    \/ RequestConc
    \/ \E w \in Workers : RunStepSave(w)

SpecSave == Init /\ [][NextSave]_vars

(* A pass that has got past line 31 of _run_plan takes the step in which it *)
(* returns.                                                                 *)
Returns(w) == thr[w].pc \notin {"idle", "begin", "ret"} /\ thr'[w].pc = "ret"

(* C34. Store update refreshes updated_at: no step decreases a stored       *)
(* plan's updated_at, updated_at is never earlier than created_at, and the  *)
(* step in which a pass that has changed the plan returns is a store update *)
(* that sets updated_at to the time it read.                                *)
C34_UpdatedAt ==
    [][ \A p \in store :
            /\ plans'[p].updated_at >= plans[p].updated_at
            /\ plans'[p].created_at <= plans'[p].updated_at
            /\ \A w \in Workers :
                   (thr[w].plan = p /\ Returns(w)) =>
                       plans'[p].updated_at =
                           (IF thr[w].pc = "store" THEN thr[w].now ELSE clock)
      ]_vars

(* ---------------------------- buffer bound ----------------------------- *)
(* C35. Collector buffer bound: after any sequence of pushes and flushes    *)
(* the event buffer holds at most BUFFER_MAX_EVENTS events, and a push that *)
(* found the buffer full has accepted nothing and left the buffer and the   *)
(* dedup index with the events and digests they had.                        *)
C35_BufferBound ==
    /\ Len(EVENT_BUFFER) <= BUFFER_MAX_EVENTS
    /\ (reply.op = "push" /\ reply.code = 200 /\ Len(reply.buffer) >= BUFFER_MAX_EVENTS) =>
           /\ reply.accepted_count = 0
           /\ Len(EVENT_BUFFER) = Len(reply.buffer)
           /\ \A i \in DOMAIN EVENT_BUFFER :
                  EVENT_BUFFER[i].raw_snippet = reply.buffer[i].raw_snippet
           /\ DOMAIN DEDUP_INDEX = DOMAIN reply.index

(* A push that carried an event not yet indexed found the buffer full.      *)
C35_Witness ==
    /\ reply.op = "push" /\ reply.code = 200
    /\ Len(reply.buffer) = BUFFER_MAX_EVENTS
    /\ \E k \in DOMAIN reply.entries :
           compute_sha256(raw_snippet(reply.entries[k])) \notin DOMAIN reply.index

(* ---------------------------- empty plan ------------------------------- *)
(* C36. Empty plan: when the planner returned an empty task list, Start     *)
(* makes no remote call and returns the plan with status succeeded and a    *)
(* trace of three entries, for creation, start and completion.              *)
C36_EmptyPlan ==
    (/\ ev.op = "orchestrate"
     /\ ev.code = 200
     /\ Len(ev.snap.tasks) = 0)
    => /\ ev.snap.status = SUCCEEDED
       /\ CallLog(ev.plan) = <<>>
       /\ Len(ev.snap.plan_trace) = 3
       /\ ev.snap.plan_trace[1].message = "Plan created."
       /\ ev.snap.plan_trace[1].status = PENDING
       /\ ev.snap.plan_trace[2].message = "Plan execution started"
       /\ ev.snap.plan_trace[2].status = RUNNING
       /\ ev.snap.plan_trace[3].message = "Plan completed successfully."
       /\ ev.snap.plan_trace[3].status = SUCCEEDED

(* Start has answered for a plan without tasks.                             *)
C36_Witness ==
    /\ ev.op = "orchestrate"
    /\ ev.code = 200
    /\ ev.plan \in store
    /\ Len(ev.snap.tasks) = 0

(* ---------------------------- retry policies --------------------------- *)
(* RetryPolicy.max_retries is an int without a constraint (models.py:18-21) *)
(* and the planner is a collaborator: one Start at a time on plans whose    *)
(* retry policy holds any of the values below.                              *)
MaxRetryTasks == 2
MaxRetryFaults == 1

RetryValues == {-2, -1, 0, 1}
RetryPlans ==
    UNION { { [i \in 1..n |-> Task(i, AgentOf(i), mr, ra[i])] :
                mr \in RetryValues, ra \in [1..n -> BOOLEAN] }
            : n \in 1..MaxRetryTasks }

RequestRetry ==
    \/ \E p \in PlanIds, tasks \in RetryPlans : orchestrate(p, tasks)
    \/ \E p \in PlanIds : get_status(p)
    \/ \E p \in PlanIds : approve(p, NoTask)

NextRetry ==
    \/ AllIdle /\ RequestRetry
    \/ \E w \in Workers : RunStep(w, MaxRetryFaults)

SpecRetry == Init /\ [][NextRetry]_vars

(* C37. No failure without an attempt: whatever integer the retry policy    *)
(* holds, a task with status failed has attempts >= 1 and at least one      *)
(* remote call was made for it.                                             *)
C37_NoFailureWithoutAttempt ==
    \A p \in store : \A i \in TaskIdx(p) :
        Tasks(p)[i].status = "failed" =>
            /\ Tasks(p)[i].attempts >= 1
            /\ CallsFor(p, Tasks(p)[i].id) # {}

(* ---------------------------- push accounting -------------------------- *)
(* C38. Collector push accounting: for every push that is answered 200,     *)
(* accepted_count + deduped_count is the number of entries of the pushed    *)
(* payload, whatever the buffer held when the push arrived.                 *)
C38_PushAccounting ==
    (reply.op = "push" /\ reply.code = 200) =>
        reply.accepted_count + reply.deduped_count = Len(reply.entries)

====
